---- MODULE Spec2Model ----
(***************************************************************************)
(* Normalization and monthly aggregation pipeline of the dashboard          *)
(* repository: src/analysis/prepare.py, prepare_multi.py and                *)
(* prepare_4datasets.py.                                                    *)
(*                                                                          *)
(* A table is a record [cols, rows]: cols is the sequence of column names   *)
(* (the header, in order), rows the sequence of rows, a row being a         *)
(* function from the column names to cells.  A cell is a record             *)
(* [k, n, d, s]:                                                            *)
(*   k = "num"  the number n/d (d >= 1, lowest terms)                       *)
(*   k = "nan"  a missing number (NaN)                                      *)
(*   k = "txt"  the text of a date, n = yyyymmdd as written in the file     *)
(*   k = "dt"   a parsed timestamp at day resolution, n = yyyymmdd          *)
(*   k = "str"  any other text s; n is its rank in string order             *)
(* An empty `value` field of a file is a NaN cell; only the files of       *)
(* SpecVolumes have one.                                                    *)
(* sort_values is modelled as a stable sort.                                *)
(*                                                                          *)
(* The command-line entry points (main of the three modules) run over a     *)
(* file system: the raw and the processed file of each dataset, the         *)
(* directories data/ and data/processed/, and standard output.              *)
(***************************************************************************)
EXTENDS Integers, Sequences, FiniteSets, TLC

VARIABLES profile, raw, canon, monthly, pc, err,
          entry, dataset, step, rawFiles, outFiles, dirs, stdout, runs, outBefore,
          app, section, page

\* the state of one load_raw / build_* pipeline
pipe == <<profile, raw, canon, monthly, pc, err>>
\* the entry point, its --dataset argument and its position in main
ctl == <<entry, dataset, step>>
\* the file system; the number of the run, and the files of data/processed/
\* as they were when the run started
fsys == <<rawFiles, outFiles, dirs>>
hist == <<runs, outBefore>>
\* a dashboard script, the analysis selected in it and the elements it has put
\* on the page
dash == <<app, section, page>>

vars == <<profile, raw, canon, monthly, pc, err,
          entry, dataset, step, rawFiles, outFiles, dirs, stdout, runs, outBefore,
          app, section, page>>

(* ------------------------------ bounds ---------------------------------- *)
MaxRows == 3
MaxCols == 3

(* ------------------------------ cells ----------------------------------- *)
Num(n) == [k |-> "num", n |-> n, d |-> 1, s |-> ""]
NaN == [k |-> "nan", n |-> 0, d |-> 1, s |-> ""]
Txt(n) == [k |-> "txt", n |-> n, d |-> 1, s |-> ""]
Dt(n) == [k |-> "dt", n |-> n, d |-> 1, s |-> ""]
Str(n, s) == [k |-> "str", n |-> n, d |-> 1, s |-> s]

Abs(x) == IF x < 0 THEN -x ELSE x

RECURSIVE Gcd(_, _)
Gcd(a, b) == IF b = 0 THEN a ELSE Gcd(b, a % b)

\* the rational n/d (d # 0) in lowest terms with a positive denominator
Rat(n, d) ==
    LET g == Gcd(Abs(n), Abs(d))
        sg == IF d < 0 THEN -1 ELSE 1
    IN [k |-> "num", n |-> sg * (n \div g), d |-> sg * (d \div g), s |-> ""]

IsNum(c) == c.k = "num"
RatAdd(a, b) == Rat(a.n * b.d + b.n * a.d, a.d * b.d)
RatSub(a, b) == Rat(a.n * b.d - b.n * a.d, a.d * b.d)
RatLess(a, b) == a.n * b.d < b.n * a.d
RatLeq(a, b) == a.n * b.d <= b.n * a.d
RatDivInt(a, m) == Rat(a.n, a.d * m)
RatScale(a, m) == Rat(a.n * m, a.d)

\* floor of n/d for d > 0
FloorDiv(n, d) == IF n >= 0 THEN n \div d ELSE -((-n + d - 1) \div d)

(* ---------------------------- sequences --------------------------------- *)
Range(f) == {f[i] : i \in DOMAIN f}
Has(t, c) == c \in Range(t.cols)
Column(t, c) == [i \in 1..Len(t.rows) |-> t.rows[i][c]]
NoTable == [cols |-> <<>>, rows |-> <<>>]

\* lexicographic order on integer sequences of equal length
RECURSIVE LexLess(_, _)
LexLess(a, b) ==
    IF a = <<>> \/ b = <<>> THEN FALSE
    ELSE IF Head(a) < Head(b) THEN TRUE
    ELSE IF Head(a) > Head(b) THEN FALSE
    ELSE LexLess(Tail(a), Tail(b))

\* stable insertion of index i into the index sequence p ordered by key
RECURSIVE InsertIdx(_, _, _)
InsertIdx(p, i, key) ==
    IF p = <<>> THEN <<i>>
    ELSE IF LexLess(key[i], key[p[Len(p)]])
         THEN Append(InsertIdx(SubSeq(p, 1, Len(p) - 1), i, key), p[Len(p)])
         ELSE Append(p, i)

RECURSIVE SortPerm(_, _)
SortPerm(n, key) == IF n = 0 THEN <<>> ELSE InsertIdx(SortPerm(n - 1, key), n, key)

\* the rows in ascending key order, equal keys keeping their input order
StableSort(rows, key) ==
    LET p == SortPerm(Len(rows), key) IN [i \in 1..Len(rows) |-> rows[p[i]]]

(* --------------------------- pandas helpers ----------------------------- *)
YearOf(n) == n \div 10000
MonthOf(n) == (n \div 100) % 100
DayOf(n) == n % 100

IsLeap(y) == (y % 4 = 0 /\ y % 100 # 0) \/ y % 400 = 0
DaysIn(y, m) ==
    IF m \in {4, 6, 9, 11} THEN 30
    ELSE IF m = 2 THEN (IF IsLeap(y) THEN 29 ELSE 28)
    ELSE 31

\* pd.to_datetime on one cell: a date text parses when it names a calendar
\* day, a number is read as nanoseconds since the epoch, other text does not parse
Parseable(c) ==
    \/ c.k = "dt"
    \/ c.k = "num"
    \/ /\ c.k = "txt"
       /\ MonthOf(c.n) \in 1..12
       /\ DayOf(c.n) \in 1..DaysIn(YearOf(c.n), MonthOf(c.n))

EpochDay == 19700101

ToDatetimeCell(c) == IF c.k = "num" THEN Dt(EpochDay) ELSE Dt(c.n)

\* dtype of a column as pd.read_csv infers it: a number dtype when every cell
\* is a number; a column without cells (header-only file) gets dtype object
IsNumericCol(t, c) ==
    /\ Len(t.rows) > 0
    /\ \A i \in 1..Len(t.rows) : t.rows[i][c].k \in {"num", "nan"}

\* df.select_dtypes(include="number").columns.tolist()
NumColsLast(t) ==
    LET all == SelectSeq(t.cols, LAMBDA c : IsNumericCol(t, c))
    IN IF all = <<>> THEN <<>> ELSE <<all[Len(all)]>>
NumColsAny(t) == SelectSeq(t.cols, LAMBDA c : c # "date")
NumCols(t) == SelectSeq(t.cols, LAMBDA c : IsNumericCol(t, c))

\* df.rename(columns={from: to})
RenameCol(t, from, to) ==
    LET nm(c) == IF c = from THEN to ELSE c
        back(c) == IF c = to THEN from ELSE c
        newcols == [i \in 1..Len(t.cols) |-> nm(t.cols[i])]
    IN [cols |-> newcols,
        rows |-> [i \in 1..Len(t.rows) |-> [c \in Range(newcols) |-> t.rows[i][back(c)]]]]

\* df[c] = pd.to_datetime(df[c]) for an existing column c
ToDatetimeCol(t, c) ==
    [cols |-> t.cols,
     rows |-> [i \in 1..Len(t.rows) |->
                 [x \in Range(t.cols) |-> IF x = c THEN ToDatetimeCell(t.rows[i][x]) ELSE t.rows[i][x]]]]

\* df[c] = vals, appended as the last column when c is new
SetCol(t, c, vals) ==
    LET newcols == IF Has(t, c) THEN t.cols ELSE Append(t.cols, c)
    IN [cols |-> newcols,
        rows |-> [i \in 1..Len(t.rows) |->
                    [x \in Range(newcols) |-> IF x = c THEN vals[i] ELSE t.rows[i][x]]]]

\* df[keep]
Project(t, keep) ==
    [cols |-> keep,
     rows |-> [i \in 1..Len(t.rows) |-> [c \in Range(keep) |-> t.rows[i][c]]]]

\* df.sort_values(by): by is a sequence of columns of comparable cells
SortValues(t, by) ==
    LET key == [i \in 1..Len(t.rows) |-> [j \in 1..Len(by) |-> t.rows[i][by[j]].n]]
    IN [cols |-> t.cols, rows |-> StableSort(t.rows, key)]

(* ------------------------- schema normalizer ---------------------------- *)
DATE_COL_CANDIDATES == <<"date", "timestamp", "datetime">>
nvdb_cols == <<"region", "road_category", "traffic_type", "county", "road_number">>
additional_cols ==
    <<"vehicle_type", "region", "fuel_type", "road_category", "traffic_type",
      "county", "road_number">>

Ok(t) == [ok |-> TRUE, err |-> "", table |-> t]
Fail(e) == [ok |-> FALSE, err |-> e, table |-> NoTable]

\* the candidates present in the table, in candidate order
DateColsOnlyDate(t) == SelectSeq(<<"date">>, LAMBDA c : Has(t, c))
DateCols(t) == SelectSeq(DATE_COL_CANDIDATES, LAMBDA c : Has(t, c))

\* the allow-listed columns that load_raw keeps after date and value
KeepCols(t, allow) == <<"date", "value">> \o SelectSeq(allow, LAMBDA c : Has(t, c))

\* load_raw of prepare.py and prepare_multi.py, after pd.read_csv
LoadRaw(t, allow) ==
    IF DateCols(t) = <<>> THEN Fail("no date column")
    ELSE LET c == DateCols(t)[1] IN
    IF \E i \in 1..Len(t.rows) : ~Parseable(t.rows[i][c]) THEN Fail("date parse error")
    ELSE LET t1 == RenameCol(ToDatetimeCol(t, c), c, "date") IN
    IF ~Has(t1, "value") /\ NumCols(t1) = <<>> THEN Fail("no numeric column")
    ELSE LET t2 == IF Has(t1, "value") THEN t1 ELSE RenameCol(t1, NumCols(t1)[1], "value")
         IN Ok(SortValues(Project(t2, KeepCols(t2, allow)), <<"date">>))

(* ------------------------- grouped statistics --------------------------- *)
Inf(sg) == [k |-> "inf", n |-> sg, d |-> 1, s |-> ""]

Idx(n) == [i \in 1..n |-> i]

\* the cells that groupby statistics do not skip
NonNull(cells) == SelectSeq(cells, LAMBDA c : c.k # "nan")

RECURSIVE SumCells(_)
SumCells(cells) ==
    IF cells = <<>> THEN Num(0) ELSE RatAdd(Head(cells), SumCells(Tail(cells)))

AggSum(cells) == SumCells(NonNull(cells))
AggCount(cells) == Num(Len(NonNull(cells)))

AggMean(cells) ==
    LET nn == NonNull(cells)
        fin == SelectSeq(nn, IsNum)
        pos == \E i \in 1..Len(nn) : nn[i].k = "inf" /\ nn[i].n > 0
        neg == \E i \in 1..Len(nn) : nn[i].k = "inf" /\ nn[i].n < 0
    IN IF nn = <<>> \/ (pos /\ neg) THEN NaN
       ELSE IF pos THEN Inf(1)
       ELSE IF neg THEN Inf(-1)
       ELSE RatDivInt(SumCells(fin), Len(fin))

\* ascending order of number cells
SortCells(cells) ==
    LET byVal == [i \in 1..Len(cells) |->
                    Cardinality({j \in 1..Len(cells) :
                        RatLess(cells[j], cells[i]) \/ (cells[j] = cells[i] /\ j < i)}) + 1]
    IN [r \in 1..Len(cells) |-> cells[CHOOSE i \in 1..Len(cells) : byVal[i] = r]]

AggMedian(cells) ==
    LET nn == SortCells(NonNull(cells))
        m == Len(nn)
    IN IF m = 0 THEN NaN
       ELSE IF m % 2 = 1 THEN nn[(m + 1) \div 2]
       ELSE RatDivInt(RatAdd(nn[m \div 2], nn[m \div 2 + 1]), 2)

AggMax(cells) ==
    LET nn == NonNull(cells)
    IN IF nn = <<>> THEN NaN
       ELSE nn[CHOOSE i \in 1..Len(nn) : \A j \in 1..Len(nn) : RatLeq(nn[j], nn[i])]

AggMin(cells) ==
    LET nn == NonNull(cells)
    IN IF nn = <<>> THEN NaN
       ELSE nn[CHOOSE i \in 1..Len(nn) : \A j \in 1..Len(nn) : RatLeq(nn[i], nn[j])]

\* groupby "last": the last non-null cell of the group
AggLast(cells) ==
    LET nn == NonNull(cells) IN IF nn = <<>> THEN NaN ELSE nn[Len(nn)]

Agg(stat, cells) ==
    CASE stat = "sum" -> AggSum(cells)
      [] stat = "mean" -> AggMean(cells)
      [] stat = "median" -> AggMedian(cells)
      [] stat = "count" -> AggCount(cells)
      [] stat = "max" -> AggMax(cells)
      [] stat = "min" -> AggMin(cells)
      [] stat = "last" -> AggLast(cells)

\* the group key of a row
KeyOf(row, by) == [j \in 1..Len(by) |-> row[by[j]].n]

RECURSIVE SortKeys(_)
SortKeys(S) ==
    IF S = {} THEN <<>>
    ELSE LET m == CHOOSE x \in S : \A y \in S \ {x} : LexLess(x, y)
         IN <<m>> \o SortKeys(S \ {m})

\* groupby(by) with sort=True: the distinct keys in ascending order
GroupKeys(t, by) == SortKeys({KeyOf(t.rows[i], by) : i \in 1..Len(t.rows)})

\* the row numbers of one group, in table order
GroupIdx(t, by, key) == SelectSeq(Idx(Len(t.rows)), LAMBDA i : KeyOf(t.rows[i], by) = key)

\* t.groupby(by).agg(...) followed by the naming of the statistic columns:
\* aggs is the sequence of <<column, statistic>> pairs in the order of the
\* agg dictionary, names the flat name of each pair by position
GroupAgg(t, by, aggs, names) ==
    LET keys == GroupKeys(t, by)
        outcols == by \o names
        cell(key, c) ==
            LET ix == GroupIdx(t, by, key) IN
            IF c \in Range(by) THEN t.rows[ix[1]][c]
            ELSE LET j == CHOOSE j \in 1..Len(names) : names[j] = c
                 IN Agg(aggs[j][2], [r \in 1..Len(ix) |-> t.rows[ix[r]][aggs[j][1]]])
    IN [cols |-> outcols,
        rows |-> [g \in 1..Len(keys) |-> [c \in Range(outcols) |-> cell(keys[g], c)]]]

(* ---------------------------- derived fields ---------------------------- *)
\* (cur / prev - 1) * 100 in floating point
PctCell(cur, prev) ==
    IF ~IsNum(cur) \/ ~IsNum(prev) THEN NaN
    ELSE IF prev.n = 0
         THEN (IF cur.n = 0 THEN NaN ELSE Inf(IF cur.n > 0 THEN 1 ELSE -1))
    ELSE RatScale(RatSub(Rat(cur.n * prev.d, cur.d * prev.n), Num(1)), 100)

\* Series.pct_change(periods) * 100 over the cells of one series
PctChange(cells, periods) ==
    [i \in 1..Len(cells) |->
        IF i <= periods THEN NaN ELSE PctCell(cells[i], cells[i - periods])]

\* Series.rolling(w, min_periods=1).mean() over the cells of one series
RollingExpanding(cells, w) == [i \in 1..Len(cells) |-> AggMean(SubSeq(cells, 1, i))]
Rolling(cells, w) ==
    [i \in 1..Len(cells) |->
        AggMean(SubSeq(cells, IF i - w + 1 < 1 THEN 1 ELSE i - w + 1, i))]

\* t.groupby(by)[c].pct_change(periods) * 100: computed over each group's
\* cells in table order, every result going back to the row it was computed for
GroupPctChangeUngrouped(t, by, c, periods) == PctChange(Column(t, c), periods)
GroupPctChange(t, by, c, periods) ==
    [i \in 1..Len(t.rows) |->
        LET ix == GroupIdx(t, by, KeyOf(t.rows[i], by))
            pos == CHOOSE r \in 1..Len(ix) : ix[r] = i
        IN PctChange([r \in 1..Len(ix) |-> t.rows[ix[r]][c]], periods)[pos]]

RECURSIVE Concat(_)
Concat(ss) == IF ss = <<>> THEN <<>> ELSE Head(ss) \o Concat(Tail(ss))

\* t.groupby(by)[c].rolling(w, min_periods=1).mean().values: the rolling
\* means group after group in key order, as a plain array
GroupRollingValues(t, by, c, w) ==
    LET keys == GroupKeys(t, by)
    IN Concat([g \in 1..Len(keys) |->
                 LET ix == GroupIdx(t, by, keys[g])
                 IN Rolling([r \in 1..Len(ix) |-> t.rows[ix[r]][c]], w)])

\* round to the nearest integer, halves to even (numpy), of n/d with d > 0
RoundHalfEven(n, d) ==
    LET q == FloorDiv(n, d)
        r == n - q * d
    IN IF 2 * r < d THEN q
       ELSE IF 2 * r > d THEN q + 1
       ELSE IF q % 2 = 0 THEN q ELSE q + 1

\* .round(1) on one cell
Round1(c) == IF IsNum(c) THEN Rat(RoundHalfEven(10 * c.n, c.d), 10) ELSE c

\* .fillna(0) on one cell
Fillna0(c) == IF c.k = "nan" THEN Num(0) ELSE c

SeasonOfShifted(m) ==
    IF m \in {1, 2, 3} THEN Str(4, "Winter")
    ELSE IF m \in {4, 5, 6} THEN Str(2, "Spring")
    ELSE IF m \in {7, 8, 9} THEN Str(3, "Summer")
    ELSE IF m \in {10, 11, 12} THEN Str(1, "Autumn")
    ELSE NaN
\* the month -> season dictionary of the build functions
SeasonOf(m) ==
    IF m \in {12, 1, 2} THEN Str(4, "Winter")
    ELSE IF m \in {3, 4, 5} THEN Str(2, "Spring")
    ELSE IF m \in {6, 7, 8} THEN Str(3, "Summer")
    ELSE IF m \in {9, 10, 11} THEN Str(1, "Autumn")
    ELSE NaN

CutLeftClosed(c) ==
    IF c.k = "inf" /\ c.n > 0 THEN Str(4, "Very High")
    ELSE IF ~IsNum(c) \/ ~RatLess(Num(0), c) THEN NaN
    ELSE IF RatLess(c, Num(30000)) THEN Str(1, "Low")
    ELSE IF RatLess(c, Num(45000)) THEN Str(2, "Medium")
    ELSE IF RatLess(c, Num(60000)) THEN Str(3, "High")
    ELSE Str(4, "Very High")
\* pd.cut(x, bins=[0, 30000, 45000, 60000, inf], labels=[...]): right-closed bins
Cut(c) ==
    IF c.k = "inf" /\ c.n > 0 THEN Str(4, "Very High")
    ELSE IF ~IsNum(c) \/ ~RatLess(Num(0), c) THEN NaN
    ELSE IF RatLeq(c, Num(30000)) THEN Str(1, "Low")
    ELSE IF RatLeq(c, Num(45000)) THEN Str(2, "Medium")
    ELSE IF RatLeq(c, Num(60000)) THEN Str(3, "High")
    ELSE Str(4, "Very High")

(* -------------------------- monthly aggregator -------------------------- *)
Built(t, df) == [ok |-> TRUE, err |-> "", table |-> t, df |-> df]
RaisedReturningInput(e, df) == [ok |-> TRUE, err |-> "", table |-> df, df |-> df]
Raised(e, df) == [ok |-> FALSE, err |-> e, table |-> NoTable, df |-> df]

\* out["year"] = out["date"].dt.year; out["month"] = out["date"].dt.month
WithYearMonth(t) ==
    LET y == [i \in 1..Len(t.rows) |-> Num(YearOf(t.rows[i]["date"].n))]
        m == [i \in 1..Len(t.rows) |-> Num(MonthOf(t.rows[i]["date"].n))]
    IN SetCol(SetCol(t, "year", y), "month", m)

\* t["season"] = t["month"].map({...})
WithSeason(t) ==
    SetCol(t, "season", [i \in 1..Len(t.rows) |-> SeasonOf(t.rows[i]["month"].n)])

WithMidMonth(t) ==
    SetCol(t, "date",
           [i \in 1..Len(t.rows) |->
               Dt(t.rows[i]["year"].n * 10000 + t.rows[i]["month"].n * 100 + 15)])
\* monthly["date"] = pd.to_datetime(monthly[["year", "month"]].assign(day=1))
WithFirstOfMonth(t) ==
    SetCol(t, "date",
           [i \in 1..Len(t.rows) |->
               Dt(t.rows[i]["year"].n * 10000 + t.rows[i]["month"].n * 100 + 1)])

\* arithmetic on a column of text raises TypeError
NotArithmetic(t, c) == \E i \in 1..Len(t.rows) : t.rows[i][c].k \notin {"num", "nan", "inf"}

\* the statistic columns of a flattened (column, statistic) index
FlatName(col, stat) == IF col = "value" THEN "traffic_" \o stat ELSE col \o "_" \o stat
FlatNames(aggs) == [j \in 1..Len(aggs) |-> FlatName(aggs[j][1], aggs[j][2])]

\* group_cols of the traffic profiles
TrafficGroupCols(df) ==
    <<"year", "month">>
        \o (IF Has(df, "region") THEN <<"region">> ELSE <<>>)
        \o (IF Has(df, "road_category") THEN <<"road_category">> ELSE <<>>)

ValueStats6 ==
    << <<"value", "sum">>, <<"value", "mean">>, <<"value", "median">>,
       <<"value", "count">>, <<"value", "max">>, <<"value", "min">> >>
ValueStats5 ==
    << <<"value", "sum">>, <<"value", "mean">>, <<"value", "median">>,
       <<"value", "count">>, <<"value", "max">> >>
ValueStats4 ==
    << <<"value", "sum">>, <<"value", "mean">>, <<"value", "max">>, <<"value", "count">> >>

YearPeriods == 12
Window3 == 3
Window12 == 12

WithIntensity(t) ==
    IF Has(t, "traffic_mean")
    THEN SetCol(t, "traffic_intensity",
                [i \in 1..Len(t.rows) |-> Cut(t.rows[i]["traffic_mean"])])
    ELSE t

\* prepare.build_metrics
PrepareBuildMetrics(df) ==
    IF ~Has(df, "region") THEN Raised("KeyError", df)
    ELSE IF NotArithmetic(df, "value") THEN Raised("TypeError", df)
    ELSE
    LET o1 == SortValues(WithYearMonth(df), <<"region", "date">>)
        o2 == SetCol(o1, "monthly_change",
                     GroupPctChange(o1, <<"region">>, "value", 1))
        o3 == SetCol(o2, "yearly_change",
                     GroupPctChange(o2, <<"region">>, "value", YearPeriods))
        o4 == SetCol(o3, "rolling_3_month",
                     GroupRollingValues(o3, <<"region">>, "value", Window3))
        o5 == SetCol(o4, "rolling_12_month",
                     GroupRollingValues(o4, <<"region">>, "value", Window12))
        aggs == ValueStats6 \o
                << <<"monthly_change", "mean">>, <<"yearly_change", "mean">>,
                   <<"rolling_3_month", "last">>, <<"rolling_12_month", "last">> >>
        m == GroupAgg(o5, TrafficGroupCols(df), aggs, FlatNames(aggs))
    IN Built(WithIntensity(WithSeason(WithFirstOfMonth(m))), df)

EvNames ==
    <<"ev_registrations_total", "ev_registrations_mean", "ev_registrations_median",
      "data_points", "ev_registrations_max", "monthly_growth_rate", "yearly_growth_rate">>

\* prepare_multi.build_ev_metrics
MultiBuildEvMetrics(df) ==
    IF NotArithmetic(df, "value") THEN Raised("TypeError", df)
    ELSE
    LET o1 == SortValues(WithYearMonth(df), <<"date">>)
        o2 == SetCol(o1, "monthly_growth", PctChange(Column(o1, "value"), 1))
        o3 == SetCol(o2, "yearly_growth", PctChange(Column(o2, "value"), YearPeriods))
        aggs == ValueStats5 \o
                << <<"monthly_growth", "mean">>, <<"yearly_growth", "mean">> >>
        m == GroupAgg(o3, <<"year", "month">>, aggs, EvNames)
    IN Built(WithSeason(WithFirstOfMonth(m)), df)

\* prepare_multi.build_traffic_metrics
MultiBuildTrafficMetrics(df) ==
    IF ~Has(df, "region") THEN Raised("KeyError", df)
    ELSE IF NotArithmetic(df, "value") THEN Raised("TypeError", df)
    ELSE
    LET o1 == SortValues(WithYearMonth(df), <<"region", "date">>)
        o2 == SetCol(o1, "monthly_change",
                     GroupPctChange(o1, <<"region">>, "value", 1))
        o3 == SetCol(o2, "yearly_change",
                     GroupPctChange(o2, <<"region">>, "value", YearPeriods))
        aggs == ValueStats6 \o
                << <<"monthly_change", "mean">>, <<"yearly_change", "mean">> >>
        m == GroupAgg(o3, TrafficGroupCols(df), aggs, FlatNames(aggs))
    IN Built(WithIntensity(WithSeason(WithFirstOfMonth(m))), df)

\* .round(1) on the statistic columns of an aggregated frame
RoundCols(t, cs) ==
    [cols |-> t.cols,
     rows |-> [i \in 1..Len(t.rows) |->
                 [c \in Range(t.cols) |->
                     IF c \in Range(cs) THEN Round1(t.rows[i][c]) ELSE t.rows[i][c]]]]

Ev4Names ==
    <<"ev_registrations_total", "ev_registrations_mean", "ev_registrations_max",
      "ev_registrations_count">>
Traffic4Names == <<"traffic_sum", "traffic_mean", "traffic_max", "traffic_count">>

\* prepare_4datasets.build_ev_metrics; df is changed in place
FourBuildEvMetrics(df) ==
    IF ~Has(df, "date") THEN Raised("KeyError", df)
    ELSE IF \E i \in 1..Len(df.rows) : ~Parseable(df.rows[i]["date"])
    THEN Raised("date parse error", df)
    ELSE
    LET d1 == WithSeason(WithYearMonth(ToDatetimeCol(df, "date"))) IN
    IF ~Has(d1, "value") THEN Raised("KeyError", d1)
    ELSE IF NotArithmetic(d1, "value") THEN Raised("TypeError", d1)
    ELSE
    LET m1 == RoundCols(GroupAgg(d1, <<"date">>, ValueStats4, Ev4Names), Ev4Names)
        g == PctChange(Column(m1, "ev_registrations_total"), 1)
        m2 == SetCol(m1, "monthly_growth_rate",
                     [i \in 1..Len(g) |-> Round1(Fillna0(g[i]))])
    IN Built(WithSeason(WithYearMonth(m2)), d1)

\* prepare_4datasets.build_traffic_metrics; df is changed in place
FourBuildTrafficMetrics(df) ==
    IF ~Has(df, "date") THEN Raised("KeyError", df)
    ELSE IF \E i \in 1..Len(df.rows) : ~Parseable(df.rows[i]["date"])
    THEN Raised("date parse error", df)
    ELSE
    LET d1 == WithYearMonth(ToDatetimeCol(df, "date")) IN
    IF ~Has(d1, "region") \/ ~Has(d1, "road_category") \/ ~Has(d1, "value")
    THEN Raised("KeyError", d1)
    ELSE IF NotArithmetic(d1, "value") THEN Raised("TypeError", d1)
    ELSE
    LET m1 == RoundCols(GroupAgg(d1, <<"date", "region", "road_category">>,
                                 ValueStats4, Traffic4Names), Traffic4Names)
        g == GroupPctChange(m1, <<"region", "road_category">>, "traffic_mean", 1)
        m2 == SetCol(m1, "monthly_change_mean",
                     [i \in 1..Len(g) |-> Round1(Fillna0(g[i]))])
    IN Built(WithYearMonth(m2), d1)

\* groupby(by)[c].diff(): each cell minus the previous cell of its group
Diff(cells) ==
    [i \in 1..Len(cells) |->
        IF i = 1 \/ ~IsNum(cells[i]) \/ ~IsNum(cells[i - 1]) THEN NaN
        ELSE RatSub(cells[i], cells[i - 1])]
GroupDiff(t, by, c) ==
    [i \in 1..Len(t.rows) |->
        LET ix == GroupIdx(t, by, KeyOf(t.rows[i], by))
            pos == CHOOSE r \in 1..Len(ix) : ix[r] = i
        IN Diff([r \in 1..Len(ix) |-> t.rows[ix[r]][c]])[pos]]

EnturStats ==
    << <<"scheduled_trips", "sum">>, <<"scheduled_trips", "mean">>,
       <<"on_time_trips", "sum">>, <<"on_time_trips", "mean">>,
       <<"delayed_trips", "sum">>, <<"delayed_trips", "mean">>,
       <<"avg_delay_minutes", "mean">>, <<"avg_delay_minutes", "max">>,
       <<"punctuality_rate", "mean">>, <<"punctuality_rate", "min">>,
       <<"punctuality_rate", "max">>,
       <<"passenger_impact_score", "mean">>, <<"passenger_impact_score", "sum">> >>
EnturNamesSwapped ==
    <<"scheduled_trips_total", "scheduled_trips_mean",
      "on_time_trips_total", "on_time_trips_mean",
      "delayed_trips_total", "delayed_trips_mean",
      "avg_delay_max", "avg_delay_mean",
      "punctuality_rate_mean", "punctuality_rate_min", "punctuality_rate_max",
      "passenger_impact_mean", "passenger_impact_total">>
EnturNames ==
    <<"scheduled_trips_total", "scheduled_trips_mean",
      "on_time_trips_total", "on_time_trips_mean",
      "delayed_trips_total", "delayed_trips_mean",
      "avg_delay_mean", "avg_delay_max",
      "punctuality_rate_mean", "punctuality_rate_min", "punctuality_rate_max",
      "passenger_impact_mean", "passenger_impact_total">>

GeonorgeStats ==
    << <<"population_density", "mean">>, <<"population_density", "max">>,
       <<"road_network_km", "sum">>, <<"road_network_km", "mean">>,
       <<"green_area_pct", "mean">>,
       <<"urban_development_index", "mean">>, <<"urban_development_index", "max">>,
       <<"transport_accessibility_score", "mean">>,
       <<"economic_activity_index", "mean">>,
       <<"infrastructure_quality_score", "mean">>,
       <<"environmental_quality_index", "mean">>,
       <<"regional_connectivity_score", "mean">> >>
GeonorgeNames ==
    <<"population_density_mean", "population_density_max",
      "road_network_total", "road_network_mean",
      "green_area_pct_mean",
      "urban_development_mean", "urban_development_max",
      "transport_accessibility_mean",
      "economic_activity_mean",
      "infrastructure_quality_mean",
      "environmental_quality_mean",
      "regional_connectivity_mean">>

\* the columns an aggregation reads
StatCols(aggs) == {aggs[j][1] : j \in 1..Len(aggs)}

\* prepare_4datasets.build_entur_metrics; df is changed in place
FourBuildEnturMetrics(df) ==
    IF ~Has(df, "date") THEN Raised("KeyError", df)
    ELSE IF \E i \in 1..Len(df.rows) : ~Parseable(df.rows[i]["date"])
    THEN Raised("date parse error", df)
    ELSE
    LET d1 == WithYearMonth(ToDatetimeCol(df, "date")) IN
    IF ~Has(d1, "region") \/ ~Has(d1, "operator")
       \/ \E c \in StatCols(EnturStats) : ~Has(d1, c)
    THEN Raised("KeyError", d1)
    ELSE IF \E c \in StatCols(EnturStats) : NotArithmetic(d1, c)
    THEN Raised("TypeError", d1)
    ELSE
    LET m1 == RoundCols(GroupAgg(d1, <<"date", "region", "operator">>,
                                 EnturStats, EnturNames), EnturNames)
        g == GroupDiff(m1, <<"region", "operator">>, "punctuality_rate_mean")
        m2 == SetCol(m1, "punctuality_improvement",
                     [i \in 1..Len(g) |-> Round1(Fillna0(g[i]))])
    IN Built(WithSeason(WithYearMonth(m2)), d1)

\* prepare_4datasets.build_geonorge_metrics; df is changed in place
FourBuildGeonorgeMetrics(df) ==
    IF ~Has(df, "date") THEN Raised("KeyError", df)
    ELSE IF \E i \in 1..Len(df.rows) : ~Parseable(df.rows[i]["date"])
    THEN Raised("date parse error", df)
    ELSE
    LET d1 == WithYearMonth(ToDatetimeCol(df, "date")) IN
    IF ~Has(d1, "county_name") \/ ~Has(d1, "kommune_name")
       \/ \E c \in StatCols(GeonorgeStats) : ~Has(d1, c)
    THEN Raised("KeyError", d1)
    ELSE IF \E c \in StatCols(GeonorgeStats) : NotArithmetic(d1, c)
    THEN Raised("TypeError", d1)
    ELSE
    LET m1 == RoundCols(GroupAgg(d1, <<"date", "county_name", "kommune_name">>,
                                 GeonorgeStats, GeonorgeNames), GeonorgeNames)
        g == GroupPctChange(m1, <<"county_name", "kommune_name">>,
                            "urban_development_mean", 1)
        m2 == SetCol(m1, "urban_development_rate",
                     [i \in 1..Len(g) |-> Round1(Fillna0(g[i]))])
    IN Built(WithYearMonth(m2), d1)

(* ------------------------------ pipeline -------------------------------- *)
Profiles == {"prepare", "multi_ev", "multi_traffic", "four_ev", "four_traffic"}

\* raw files of the aggregator runs: well-formed date, value and context cells
SampleDates == {Txt(20231201), Txt(20240101), Txt(20240115)}
SampleValues == {Num(1), Num(2)}
SampleRegions == {Str(1, "A"), Str(2, "B")}
SampleRoads == {Str(1, "E"), Str(2, "F")}

Rows2 == {[date |-> d, value |-> v] : d \in SampleDates, v \in SampleValues}
Rows3 == {[date |-> d, value |-> v, region |-> r] :
             d \in SampleDates, v \in SampleValues, r \in SampleRegions}
Rows4 == {[date |-> d, value |-> v, region |-> r, road_category |-> c] :
             d \in SampleDates, v \in SampleValues, r \in SampleRegions, c \in SampleRoads}

Table(cs, rs) == [cols |-> cs, rows |-> rs]

\* raw files of the normalizer runs: any header over these names, at most one row
ColNames == {"date", "timestamp", "datetime", "value", "count", "region", "vehicle_type"}
Aliases == {"date", "timestamp", "datetime"}
\* the cells a one-row file can hold under column c: a number (its own for
\* each column), a text, and for a date column a text naming no calendar day
ColCode(c) ==
    CASE c = "date" -> 11 [] c = "timestamp" -> 12 [] c = "datetime" -> 13
      [] c = "value" -> 14 [] c = "count" -> 15 [] c = "region" -> 16
      [] c = "vehicle_type" -> 17 [] OTHER -> 10
CellKinds(c) == IF c \in Aliases THEN {"num", "text", "bad"} ELSE {"num", "text"}
SampleCell(c, kind) ==
    IF kind = "num" THEN Num(ColCode(c))
    ELSE IF c \in Aliases THEN Txt(IF kind = "text" THEN 20240115 ELSE 20240230)
    ELSE Str(1, "x")

Headers ==
    UNION {{cs \in [1..n -> ColNames] : \A i, j \in 1..n : cs[i] = cs[j] => i = j} :
              n \in 0..MaxCols}

SchemaRows(cs) ==
    {<<>>} \cup
    {<<[c \in Range(cs) |-> SampleCell(c, ks[c])]>> :
        ks \in {f \in [Range(cs) -> {"num", "text", "bad"}] :
                  \A c \in Range(cs) : f[c] \in CellKinds(c)}}

\* the datasets, in the order main handles them, and their raw and processed
\* files (norwegian_<d>_*.csv under data/raw, <d>_metrics.csv under
\* data/processed)
Datasets == {"ev", "traffic", "entur", "geonorge"}
NoFile == [exists |-> FALSE, table |-> NoTable]
File(t) == [exists |-> TRUE, table |-> t]
EntryOf(p) ==
    IF p = "prepare" THEN "prepare"
    ELSE IF p \in {"multi_ev", "multi_traffic"} THEN "multi" ELSE "four"
DatasetOf(p) ==
    CASE p \in {"multi_ev", "four_ev"} -> "ev"
      [] p \in {"prepare", "multi_traffic", "four_traffic"} -> "traffic"
      [] p = "four_entur" -> "entur"
      [] p = "four_geonorge" -> "geonorge"
\* a message on standard output: its kind, the dataset it names and the row
\* count it reports (0 when it reports none)
Msg(kind, d, n) == [kind |-> kind, ds |-> d, rows |-> n]

\* no dashboard is running
NoDashboard ==
    /\ app = ""
    /\ section = ""
    /\ page = <<>>

\* a pipeline called directly on the file `raw`: nothing of main has run
Start ==
    /\ profile \in Profiles
    /\ canon = NoTable
    /\ monthly = NoTable
    /\ pc = "read"
    /\ err = ""
    /\ entry = EntryOf(profile)
    /\ dataset = ""
    /\ step = 0
    /\ outFiles = [d \in Datasets |-> NoFile]
    /\ dirs = [data |-> TRUE, processed |-> FALSE]
    /\ stdout = <<>>
    /\ runs = 1
    /\ outBefore = [d \in Datasets |-> NoFile]
    /\ NoDashboard
\* the file `raw` is the raw file of the profile's dataset
RawOnDisk ==
    rawFiles = [d \in Datasets |-> IF d = DatasetOf(profile) THEN File(raw) ELSE NoFile]

Init ==
    /\ Start
    /\ \/ \E n \in 0..MaxRows : \E rs \in [1..n -> Rows2] :
             raw = Table(<<"date", "value">>, rs)
       \/ \E n \in 0..MaxRows : \E rs \in [1..n -> Rows3] :
             raw = Table(<<"date", "value", "region">>, rs)
       \/ \E n \in 0..(MaxRows - 1) : \E rs \in [1..n -> Rows4] :
             raw = Table(<<"date", "value", "region", "road_category">>, rs)
    /\ RawOnDisk

InitSchema ==
    /\ Start
    /\ \E cs \in Headers : \E rs \in SchemaRows(cs) : raw = Table(cs, rs)
    /\ RawOnDisk

LoadedTruncating(r) ==
    /\ canon' = r.table
    /\ pc' = IF r.ok THEN "loaded" ELSE "failed"
    /\ err' = r.err
    /\ outFiles' = [outFiles EXCEPT ![DatasetOf(profile)] = File(NoTable)]
    /\ UNCHANGED <<profile, raw, monthly>>
    /\ UNCHANGED <<ctl, rawFiles, dirs, hist, dash>>
Loaded(r) ==
    /\ canon' = r.table
    /\ pc' = IF r.ok THEN "loaded" ELSE "failed"
    /\ err' = r.err
    /\ UNCHANGED <<profile, raw, monthly>>
    /\ UNCHANGED <<ctl, fsys, hist, dash>>

\* prepare.load_raw
PrepareLoadRaw ==
    /\ pc = "read"
    /\ profile = "prepare"
    /\ Loaded(LoadRaw(raw, nvdb_cols))
    /\ UNCHANGED stdout

\* prepare_multi.load_raw
MultiLoadRaw ==
    /\ pc = "read"
    /\ profile \in {"multi_ev", "multi_traffic"}
    /\ Loaded(LoadRaw(raw, additional_cols))
    /\ UNCHANGED stdout

\* prepare_4datasets.load_raw prints the file it is about to read and returns
\* it as read; read_csv raises FileNotFoundError when the file is absent
FourLoadRaw ==
    /\ pc = "read"
    /\ EntryOf(profile) = "four"
    /\ stdout' = Append(stdout, Msg("processing", DatasetOf(profile), 0))
    /\ Loaded(IF rawFiles[DatasetOf(profile)].exists THEN Ok(raw)
              ELSE Fail("FileNotFoundError"))

Aggregated(r) ==
    /\ monthly' = r.table
    /\ canon' = r.df
    /\ pc' = IF r.ok THEN "built" ELSE "failed"
    /\ err' = r.err
    /\ UNCHANGED <<profile, raw>>
    /\ UNCHANGED <<ctl, fsys, hist, dash, stdout>>

BuildMetrics ==
    /\ pc = "loaded"
    /\ profile = "prepare"
    /\ Aggregated(PrepareBuildMetrics(canon))

BuildEvMetrics ==
    /\ pc = "loaded"
    /\ profile = "multi_ev"
    /\ Aggregated(MultiBuildEvMetrics(canon))

BuildTrafficMetrics ==
    /\ pc = "loaded"
    /\ profile = "multi_traffic"
    /\ Aggregated(MultiBuildTrafficMetrics(canon))

BuildEvMetrics4 ==
    /\ pc = "loaded"
    /\ profile = "four_ev"
    /\ Aggregated(FourBuildEvMetrics(canon))

BuildTrafficMetrics4 ==
    /\ pc = "loaded"
    /\ profile = "four_traffic"
    /\ Aggregated(FourBuildTrafficMetrics(canon))

\* one run of a command-line entry point up to the table it writes:
\* load_raw, then the profile's build function
LoadFor(p, t) ==
    IF p = "prepare" THEN LoadRaw(t, nvdb_cols)
    ELSE IF p \in {"multi_ev", "multi_traffic"} THEN LoadRaw(t, additional_cols)
    ELSE Ok(t)
BuildFor(p, df) ==
    CASE p = "prepare" -> PrepareBuildMetrics(df)
      [] p = "multi_ev" -> MultiBuildEvMetrics(df)
      [] p = "multi_traffic" -> MultiBuildTrafficMetrics(df)
      [] p = "four_ev" -> FourBuildEvMetrics(df)
      [] p = "four_traffic" -> FourBuildTrafficMetrics(df)
      [] p = "four_entur" -> FourBuildEnturMetrics(df)
      [] p = "four_geonorge" -> FourBuildGeonorgeMetrics(df)
Pipeline(p, t) ==
    LET l == LoadFor(p, t)
    IN IF l.ok THEN BuildFor(p, l.table) ELSE Raised(l.err, NoTable)

Next ==
    \/ PrepareLoadRaw
    \/ MultiLoadRaw
    \/ FourLoadRaw
    \/ BuildMetrics
    \/ BuildEvMetrics
    \/ BuildTrafficMetrics
    \/ BuildEvMetrics4
    \/ BuildTrafficMetrics4

Spec == Init /\ [][Next]_vars
SpecNorm == InitSchema /\ [][Next]_vars

\* time series per region: raw files with a date, a value and a region
\* column, the value of the i-th line being i; short files in any order of
\* dates and regions, and files of YearPeriods + 1 lines of one region that
\* cover two months
MaxSeriesRows == 4
SeriesDates == {20231201, 20240101}
SeriesRow(i, d, r) == [date |-> Txt(d), value |-> Num(i), region |-> r]
SeriesCols == <<"date", "value", "region">>
LongSeries(k) ==
    Table(SeriesCols,
          [i \in 1..(YearPeriods + 1) |->
              SeriesRow(i, IF i <= k THEN 20231201 ELSE 20240101, Str(1, "A"))])

InitSeries ==
    /\ Start
    /\ profile \in {"prepare", "multi_ev", "multi_traffic"}
    /\ \/ \E n \in 0..MaxSeriesRows :
             \E ds \in [1..n -> SeriesDates] : \E rs \in [1..n -> SampleRegions] :
                raw = Table(SeriesCols, [i \in 1..n |-> SeriesRow(i, ds[i], rs[i])])
       \/ \E k \in 0..(YearPeriods + 1) : raw = LongSeries(k)
    /\ RawOnDisk

NextSeries ==
    \/ PrepareLoadRaw
    \/ MultiLoadRaw
    \/ BuildMetrics
    \/ BuildEvMetrics
    \/ BuildTrafficMetrics

SpecSeries == InitSeries /\ [][NextSeries]_vars

(* ------------------------ command-line entry points --------------------- *)
MaxRuns == 2

\* DataFrame.to_csv(path, index=False): the header and one line per row; a
\* timestamp is written as the text of its day, a missing number as the empty
\* field, a number and a text as they print
ToCsvCell(c) ==
    CASE c.k = "dt" -> Txt(c.n)
      [] c.k = "nan" -> Str(0, "")
      [] c.k = "inf" -> Str(c.n, "inf")
      [] OTHER -> c
ToCsv(t) ==
    [cols |-> t.cols,
     rows |-> [i \in 1..Len(t.rows) |-> [c \in Range(t.cols) |-> ToCsvCell(t.rows[i][c])]]]

\* the `if args.dataset in [...]` blocks of main, in order
StepDatasetReversed == <<"geonorge", "entur", "traffic", "ev">>
StepDataset == <<"ev", "traffic", "entur", "geonorge">>
LastStep(e) == IF e = "multi" THEN 2 ELSE IF e = "four" THEN 4 ELSE 0
SelectsBothWide(e, a, d) ==
    CASE e = "prepare" -> d = "traffic"
      [] e = "multi" -> \/ d = "ev" /\ a \in {"ev", "both"}
                        \/ d = "traffic" /\ a \in {"traffic", "both"}
      [] e = "four" -> \/ d = "ev" /\ a \in {"ev", "both", "all"}
                       \/ d = "traffic" /\ a \in {"traffic", "both", "all"}
                       \/ d = "entur" /\ a \in {"entur", "both", "all"}
                       \/ d = "geonorge" /\ a \in {"geonorge", "all"}
Selects(e, a, d) ==
    CASE e = "prepare" -> d = "traffic"
      [] e = "multi" -> \/ d = "ev" /\ a \in {"ev", "both"}
                        \/ d = "traffic" /\ a \in {"traffic", "both"}
      [] e = "four" -> \/ d = "ev" /\ a \in {"ev", "both", "all"}
                       \/ d = "traffic" /\ a \in {"traffic", "both", "all"}
                       \/ d = "entur" /\ a \in {"entur", "all"}
                       \/ d = "geonorge" /\ a \in {"geonorge", "all"}
ProfileFor(e, d) == IF e = "prepare" THEN "prepare" ELSE e \o "_" \o d
\* argparse: the choices of --dataset; prepare.main takes no argument
Choices(e) ==
    CASE e = "prepare" -> {""}
      [] e = "multi" -> {"ev", "traffic", "both"}
      [] e = "four" -> {"ev", "traffic", "entur", "geonorge", "both", "all"}

\* raw files on disk: for each dataset a file without a date column and two
\* well-formed ones
SampleRow(cs, d, v) ==
    [c \in Range(cs) |->
        IF c = "date" THEN Txt(d)
        ELSE IF c \in {"region", "operator", "county_name", "kommune_name"} THEN Str(1, "A")
        ELSE IF c = "road_category" THEN Str(1, "E")
        ELSE Num(v)]
EnturCols ==
    <<"date", "region", "operator", "scheduled_trips", "on_time_trips", "delayed_trips",
      "avg_delay_minutes", "punctuality_rate", "passenger_impact_score">>
GeonorgeCols ==
    <<"date", "county_name", "kommune_name", "population_density", "road_network_km",
      "green_area_pct", "urban_development_index", "transport_accessibility_score",
      "economic_activity_index", "infrastructure_quality_score",
      "environmental_quality_index", "regional_connectivity_score">>
RawCols(d) ==
    CASE d = "ev" -> <<"date", "value">>
      [] d = "traffic" -> <<"date", "value", "region", "road_category">>
      [] d = "entur" -> EnturCols
      [] d = "geonorge" -> GeonorgeCols
SampleFiles(d) ==
    { Table(<<"value">>, << [value |-> Num(1)] >>),
      Table(RawCols(d), << SampleRow(RawCols(d), 20240101, 1),
                           SampleRow(RawCols(d), 20240201, 2) >>),
      IF d = "traffic"
      THEN Table(<<"date", "value", "region">>,
                 << SampleRow(<<"date", "value", "region">>, 20231201, 2) >>)
      ELSE Table(RawCols(d), << SampleRow(RawCols(d), 20231201, 2) >>) }
\* what an earlier run of some other version may have left in data/processed/
OldFile == File(Table(<<"old">>, << [old |-> Num(0)] >>))

IdleProfile(e) == ProfileFor(e, "ev")
Idle ==
    /\ canon = NoTable
    /\ monthly = NoTable
    /\ raw = NoTable
    /\ pc = "main"
    /\ err = ""
    /\ step = 0
    /\ stdout = <<>>

\* the raw files an entry point can read
Reads(e) == IF e = "prepare" THEN {"traffic"} ELSE {d \in Datasets : Selects(e, "both", d) \/ Selects(e, "all", d)}

InitCli ==
    /\ entry \in {"prepare", "multi", "four"}
    /\ dataset \in Choices(entry)
    /\ profile = IdleProfile(entry)
    /\ Idle
    /\ runs = 1
    /\ \/ /\ dirs = [data |-> FALSE, processed |-> FALSE]
          /\ rawFiles = [d \in Datasets |-> NoFile]
          /\ outFiles = [d \in Datasets |-> NoFile]
       \/ /\ dirs \in {[data |-> TRUE, processed |-> FALSE], [data |-> TRUE, processed |-> TRUE]}
          /\ rawFiles \in [Datasets -> {NoFile} \cup {File(t) : t \in UNION {SampleFiles(d) : d \in Datasets}}]
          /\ \A d \in Datasets :
                /\ rawFiles[d].exists => rawFiles[d].table \in SampleFiles(d)
                /\ d \notin Reads(entry) => ~rawFiles[d].exists
          /\ outFiles \in {[d \in Datasets |-> NoFile]} \cup
                          (IF dirs.processed THEN {[d \in Datasets |-> OldFile]} ELSE {})
    /\ outBefore = outFiles
    /\ NoDashboard

\* leave the current `if` block of main: on to the next one, or return
Advance ==
    /\ step' = step + 1
    /\ pc' = IF step + 1 > LastStep(entry) THEN "done" ELSE "main"

\* enter the pipeline of dataset d: load_raw is called next
Enter(d) ==
    /\ profile' = ProfileFor(entry, d)
    /\ raw' = rawFiles[d].table
    /\ pc' = "read"
    /\ UNCHANGED <<canon, monthly, err, step>>

\* prepare.main up to load_raw: a missing raw file is reported, then sys.exit(1)
PrepareMain ==
    /\ pc = "main"
    /\ entry = "prepare"
    /\ IF rawFiles["traffic"].exists
       THEN Enter("traffic") /\ UNCHANGED stdout
       ELSE /\ stdout' = Append(stdout, Msg("missing", "traffic", 0))
            /\ pc' = "exit"
            /\ UNCHANGED <<profile, raw, canon, monthly, err, step>>
    /\ UNCHANGED <<entry, dataset, fsys, hist, dash>>

\* prepare_multi.main: parse_args, then the first block
MultiMain ==
    /\ pc = "main"
    /\ entry = "multi"
    /\ step = 0
    /\ step' = 1
    /\ UNCHANGED <<profile, raw, canon, monthly, pc, err, entry, dataset, fsys, hist, dash, stdout>>

\* prepare_multi.main, one `if args.dataset in [...]` block up to load_raw
MultiBlock ==
    /\ pc = "main"
    /\ entry = "multi"
    /\ step \in 1..LastStep(entry)
    /\ LET d == StepDataset[step] IN
       IF ~Selects(entry, dataset, d)
       THEN Advance /\ UNCHANGED <<profile, raw, canon, monthly, err, stdout>>
       ELSE IF rawFiles[d].exists
       THEN Enter(d) /\ stdout' = Append(stdout, Msg("processing", d, 0))
       ELSE /\ Advance
            /\ stdout' = Append(stdout, Msg("warning", d, 0))
            /\ UNCHANGED <<profile, raw, canon, monthly, err>>
    /\ UNCHANGED <<entry, dataset, fsys, hist, dash>>

\* prepare_4datasets.main: parse_args, then processed_dir.mkdir(exist_ok=True),
\* which raises FileNotFoundError when data/ is absent
FourMain ==
    /\ pc = "main"
    /\ entry = "four"
    /\ step = 0
    /\ IF dirs.data
       THEN /\ dirs' = [dirs EXCEPT !.processed = TRUE]
            /\ step' = 1
            /\ UNCHANGED <<pc, err>>
       ELSE /\ pc' = "failed"
            /\ err' = "FileNotFoundError"
            /\ UNCHANGED <<dirs, step>>
    /\ UNCHANGED <<profile, raw, canon, monthly, entry, dataset, rawFiles, outFiles,
                   hist, dash, stdout>>

\* prepare_4datasets.main, one `if args.dataset in [...]` block up to load_raw
FourBlock ==
    /\ pc = "main"
    /\ entry = "four"
    /\ step \in 1..LastStep(entry)
    /\ LET d == StepDataset[step] IN
       IF Selects(entry, dataset, d)
       THEN Enter(d)
       ELSE Advance /\ UNCHANGED <<profile, raw, canon, monthly, err>>
    /\ UNCHANGED <<entry, dataset, fsys, hist, dash, stdout>>

BuildEnturMetrics4 ==
    /\ pc = "loaded"
    /\ profile = "four_entur"
    /\ Aggregated(FourBuildEnturMetrics(canon))

BuildGeonorgeMetrics4 ==
    /\ pc = "loaded"
    /\ profile = "four_geonorge"
    /\ Aggregated(FourBuildGeonorgeMetrics(canon))

\* metrics.to_csv(out, index=False) and the message that follows it; to_csv
\* replaces the file, and raises OSError when the directory is absent
ToCsvAppend(d, t) ==
    IF outFiles[d].exists
    THEN File([cols |-> outFiles[d].table.cols, rows |-> outFiles[d].table.rows \o ToCsv(t).rows])
    ELSE File(ToCsv(t))
ToCsvFile(d, t) == File(ToCsv(t))
WriteCsv(d) ==
    IF dirs'.processed
    THEN /\ outFiles' = [outFiles EXCEPT ![d] = ToCsvFile(d, monthly)]
         /\ stdout' = Append(stdout, Msg("wrote", d, Len(monthly.rows)))
         /\ IF entry = "prepare" THEN pc' = "done" /\ UNCHANGED step ELSE Advance
         /\ UNCHANGED err
    ELSE /\ pc' = "failed"
         /\ err' = "OSError"
         /\ UNCHANGED <<outFiles, stdout, step>>

\* prepare.main and prepare_multi.main after the build:
\* out.parent.mkdir(parents=True, exist_ok=True), to_csv, print
MkdirWrite ==
    /\ pc = "built"
    /\ entry \in {"prepare", "multi"}
    /\ dirs' = [data |-> TRUE, processed |-> TRUE]
    /\ WriteCsv(DatasetOf(profile))
    /\ UNCHANGED <<profile, raw, canon, monthly, entry, dataset, rawFiles, hist, dash>>

\* prepare_4datasets.main after the build: to_csv, print
FourWrite ==
    /\ pc = "built"
    /\ entry = "four"
    /\ dirs' = dirs
    /\ WriteCsv(DatasetOf(profile))
    /\ UNCHANGED <<profile, raw, canon, monthly, entry, dataset, rawFiles, hist, dash>>

\* the process has ended (return, sys.exit or an uncaught exception) and the
\* same command is run again on the files as they are now
Ended == pc \in {"done", "exit", "failed"}
RunAgain ==
    /\ Ended
    /\ runs < MaxRuns
    /\ runs' = runs + 1
    /\ outBefore' = outFiles
    /\ profile' = IdleProfile(entry)
    /\ canon' = NoTable
    /\ monthly' = NoTable
    /\ raw' = NoTable
    /\ pc' = "main"
    /\ err' = ""
    /\ step' = 0
    /\ stdout' = <<>>
    /\ UNCHANGED <<entry, dataset, fsys, dash>>

NextCli ==
    \/ PrepareMain
    \/ MultiMain
    \/ MultiBlock
    \/ FourMain
    \/ FourBlock
    \/ PrepareLoadRaw
    \/ MultiLoadRaw
    \/ FourLoadRaw
    \/ BuildMetrics
    \/ BuildEvMetrics
    \/ BuildTrafficMetrics
    \/ BuildEvMetrics4
    \/ BuildTrafficMetrics4
    \/ BuildEnturMetrics4
    \/ BuildGeonorgeMetrics4
    \/ MkdirWrite
    \/ FourWrite
    \/ RunAgain

SpecCli == InitCli /\ [][NextCli]_vars

(* ------------------------------ dashboards ------------------------------ *)
\* an element on the page: a warning or an error (with the command it names,
\* if any), a success line, or the charts and metrics of a section
NoCmd == [module |-> "", arg |-> ""]
Cmd(m, a) == [module |-> m, arg |-> a]
Elem(kind, sec, cmd) == [kind |-> kind, sec |-> sec, cmd |-> cmd]

Apps == {"streamlit_app", "streamlit_multi", "streamlit_4datasets"}
\* the analyses of the selectbox; streamlit_app has the traffic page only
Sections(a) ==
    CASE a = "streamlit_app" -> {"traffic"}
      [] a = "streamlit_multi" -> {"ev", "traffic", "combined"}
      [] a = "streamlit_4datasets" -> {"cross", "ev", "traffic", "entur", "geonorge"}
\* the processed files a section reads
SectionFiles(a, sec) ==
    CASE sec = "combined" -> {"ev", "traffic"}
      [] sec = "cross" -> Datasets
      [] OTHER -> {sec}

\* processed files on disk: a table with rows, and a header-only one
ProcessedSamples ==
    { Table(<<"date", "year">>, << [date |-> Txt(20240101), year |-> Num(2024)] >>),
      Table(<<"date", "year">>, <<>>) }

\* pd.read_csv(path); df["date"] = pd.to_datetime(df["date"])
ReadProcessed(f) ==
    IF ~f.exists THEN Fail("FileNotFoundError")
    ELSE IF ~Has(f.table, "date") THEN Fail("KeyError")
    ELSE Ok(ToDatetimeCol(f.table, "date"))

Rendered(elems, to) ==
    /\ page' = page \o elems
    /\ pc' = to
    /\ UNCHANGED <<profile, raw, canon, monthly, err, ctl, fsys, stdout, hist, app, section>>

\* streamlit_app.py: warning and st.stop() when traffic_metrics.csv is absent
AppMissing == <<Elem("warning", "traffic", NoCmd)>>
StreamlitApp ==
    /\ pc = "script"
    /\ app = "streamlit_app"
    /\ IF ~outFiles["traffic"].exists THEN Rendered(AppMissing, "stopped")
       ELSE IF ~ReadProcessed(outFiles["traffic"]).ok THEN Rendered(<<>>, "failed")
       ELSE Rendered(<<Elem("success", "traffic", NoCmd), Elem("charts", "traffic", NoCmd)>>,
                     "rendered")

\* streamlit_multi.py: the branch of the selected analysis
MultiMissing(sec) ==
    <<Elem("warning", sec, Cmd("prepare_multi", IF sec = "combined" THEN "both" ELSE sec))>>
StreamlitMulti ==
    /\ pc = "script"
    /\ app = "streamlit_multi"
    /\ IF \E d \in SectionFiles(app, section) : ~outFiles[d].exists
       THEN Rendered(MultiMissing(section), "stopped")
       ELSE IF \E d \in SectionFiles(app, section) : ~ReadProcessed(outFiles[d]).ok
       THEN Rendered(<<>>, "failed")
       ELSE Rendered(<<Elem("success", section, NoCmd), Elem("charts", section, NoCmd)>>,
                     "rendered")

\* streamlit_4datasets.load_dataset: the table, or an error naming the command
\* and an empty table when the file is absent
LoadDataset(d) ==
    LET r == ReadProcessed(outFiles[d]) IN
    IF r.ok THEN [df |-> r.table, shown |-> <<>>, ok |-> TRUE]
    ELSE IF r.err = "FileNotFoundError"
    THEN [df |-> NoTable,
          shown |-> <<Elem("error", d, Cmd("prepare_4datasets", d))>>, ok |-> TRUE]
    ELSE [df |-> NoTable, shown |-> <<>>, ok |-> FALSE]
IsEmpty(df) == Len(df.rows) = 0 \/ Len(df.cols) = 0
\* the elements of loading each dataset of a sequence, in order
RECURSIVE ShownAll(_)
ShownAll(ds) == IF ds = <<>> THEN <<>> ELSE LoadDataset(Head(ds)).shown \o ShownAll(Tail(ds))

\* streamlit_4datasets.main: the sidebar's dataset status, then the display
\* function of the selected analysis
StreamlitFour ==
    /\ pc = "script"
    /\ app = "streamlit_4datasets"
    /\ LET sidebar ==
              ShownAll(StepDataset) \o
              (IF \E d \in Datasets : IsEmpty(LoadDataset(d).df)
               THEN <<Elem("warning", "sidebar", Cmd("prepare_4datasets", "all"))>>
               ELSE <<>>)
           present == {d \in Datasets : ~IsEmpty(LoadDataset(d).df)}
       IN IF \E d \in Datasets : ~LoadDataset(d).ok THEN Rendered(<<>>, "failed")
          ELSE IF section = "cross"
          THEN IF Cardinality(present) < 2
               THEN Rendered(sidebar \o ShownAll(StepDataset)
                                \o <<Elem("warning", "cross", NoCmd)>>, "rendered")
               ELSE Rendered(sidebar \o ShownAll(StepDataset)
                                \o <<Elem("charts", "cross", NoCmd)>>, "rendered")
          ELSE IF IsEmpty(LoadDataset(section).df)
          THEN Rendered(sidebar \o LoadDataset(section).shown, "rendered")
          ELSE Rendered(sidebar \o <<Elem("charts", section, NoCmd)>>, "rendered")

InitDash ==
    /\ app \in Apps
    /\ section \in Sections(app)
    /\ page = <<>>
    /\ pc = "script"
    /\ outFiles \in [Datasets -> {NoFile} \cup {File(t) : t \in ProcessedSamples}]
    /\ outBefore = outFiles
    /\ dirs = [data |-> TRUE, processed |-> TRUE]
    /\ rawFiles = [d \in Datasets |-> NoFile]
    /\ profile = "prepare"
    /\ raw = NoTable
    /\ canon = NoTable
    /\ monthly = NoTable
    /\ err = ""
    /\ entry = "prepare"
    /\ dataset = ""
    /\ step = 0
    /\ stdout = <<>>
    /\ runs = 1

NextDash ==
    \/ StreamlitApp
    \/ StreamlitMulti
    \/ StreamlitFour

SpecDash == InitDash /\ [][NextDash]_vars

(* ------------------------ claims: schema normalizer --------------------- *)
NormProfiles == {"prepare", "multi_ev", "multi_traffic"}
AllowList(p) == IF p = "prepare" THEN nvdb_cols ELSE additional_cols

\* the raw file's date column: the first present name in the order date, timestamp, datetime
FirstAlias(t) ==
    IF "date" \in Range(t.cols) THEN "date"
    ELSE IF "timestamp" \in Range(t.cols) THEN "timestamp"
    ELSE "datetime"
AliasesIn(t) == Aliases \cap Range(t.cols)
LoadDone == profile \in NormProfiles /\ pc # "read"

\* two sequences hold the same elements the same number of times
SameCells(a, b) ==
    /\ Len(a) = Len(b)
    /\ \A i \in 1..Len(a) :
          Cardinality({j \in 1..Len(a) : a[j] = a[i]}) =
          Cardinality({j \in 1..Len(b) : b[j] = a[i]})

\* the days written in the raw file's date column
ParsedDates(t) ==
    [i \in 1..Len(t.rows) |->
        LET c == t.rows[i][FirstAlias(t)] IN Dt(IF c.k = "txt" THEN c.n ELSE EpochDay)]

\* the rows of a table as <<day, measure>> pairs
DayValuePairs(days, values) == [i \in 1..Len(days) |-> <<days[i], values[i]>>]
LoadOk == LoadDone /\ canon # NoTable
LoadFailedWith(e) ==
    /\ pc = "failed"
    /\ err = e
    /\ canon = NoTable
    /\ monthly = NoTable

\* C3: load_raw fails and returns no table when the raw table has none of the
\* columns date, timestamp, datetime (error "no date column"), and when it has
\* a date column but neither a column named value nor any numeric column
\* (error "no numeric column").  The Python exception is a ValueError in both cases.
C3_SchemaErrors ==
    LoadDone =>
        /\ AliasesIn(raw) = {} => LoadFailedWith("no date column")
        /\ ( /\ AliasesIn(raw) # {}
             /\ \A i \in 1..Len(raw.rows) : Parseable(raw.rows[i][FirstAlias(raw)])
             /\ "value" \notin Range(raw.cols)
             /\ \A c \in Range(raw.cols) :
                    Len(raw.rows) = 0 \/ \E i \in 1..Len(raw.rows) : raw.rows[i][c].k # "num" )
           => LoadFailedWith("no numeric column")

C3_Witness ==
    /\ LoadDone
    /\ raw.cols = <<"region", "timestamp">>
    /\ Len(raw.rows) = 1
    /\ raw.rows[1]["timestamp"] = Txt(20240115)
    /\ LoadFailedWith("no numeric column")

\* C4: a raw table whose date column is named by any one of the aliases date,
\* timestamp, datetime normalizes to the same canonical table (or the same
\* failure) as the table with that column named by any other alias, the column
\* being called date and holding the same days; when several aliases are
\* present the first in the order date, timestamp, datetime becomes date.
C4_AliasDeterminism ==
    LoadDone =>
        /\ Cardinality(AliasesIn(raw)) = 1 =>
              \A b \in Aliases :
                  LET r == LoadRaw(RenameCol(raw, FirstAlias(raw), b), AllowList(profile))
                  IN IF r.ok THEN canon = r.table
                     ELSE LoadFailedWith(r.err)
        /\ LoadOk =>
              /\ canon.cols[1] = "date"
              /\ SameCells(Column(canon, "date"), ParsedDates(raw))

C4_Witness ==
    /\ LoadOk
    /\ raw.cols = <<"count", "datetime">>
    /\ Len(raw.rows) = 1
    /\ raw.rows[1]["datetime"] = Txt(20240115)
    /\ canon.cols = <<"date", "value">>
    /\ canon.rows[1]["date"] = Dt(20240115)

\* C5: if the raw table has a column named value, that column is the measure,
\* unchanged, whatever its position and whatever numeric columns precede it;
\* otherwise the first numeric column in the raw column order, other than the
\* date column, becomes value.
C5_NumericFallback ==
    LoadOk =>
        LET got == DayValuePairs(Column(canon, "date"), Column(canon, "value")) IN
        IF "value" \in Range(raw.cols)
        THEN SameCells(got, DayValuePairs(ParsedDates(raw), Column(raw, "value")))
        ELSE \E i \in 1..Len(raw.cols) :
                /\ raw.cols[i] # FirstAlias(raw)
                /\ \A r \in 1..Len(raw.rows) : raw.rows[r][raw.cols[i]].k = "num"
                /\ \A j \in 1..(i - 1) :
                      \/ raw.cols[j] = FirstAlias(raw)
                      \/ \E r \in 1..Len(raw.rows) : raw.rows[r][raw.cols[j]].k # "num"
                /\ SameCells(got, DayValuePairs(ParsedDates(raw), Column(raw, raw.cols[i])))
                /\ raw.cols[i] \notin Range(canon.cols)

C5_Witness ==
    /\ LoadOk
    /\ raw.cols = <<"timestamp", "vehicle_type", "count">>
    /\ Len(raw.rows) = 1
    /\ raw.rows[1]["vehicle_type"] = Num(ColCode("vehicle_type"))
    /\ raw.rows[1]["count"] = Num(ColCode("count"))
    /\ canon.rows[1]["value"] = raw.rows[1]["vehicle_type"]

\* C6: every table returned by load_raw has exactly one date and exactly one
\* value column and every other column is a name of the variant's allow-list;
\* an allow-listed column is in the output if and only if it is in the raw
\* table, with its values copied verbatim, and every raw column outside the
\* allow-list is dropped.
C6_CanonicalColumns ==
    LoadOk =>
        /\ Cardinality({i \in 1..Len(canon.cols) : canon.cols[i] = "date"}) = 1
        /\ Cardinality({i \in 1..Len(canon.cols) : canon.cols[i] = "value"}) = 1
        /\ \A c \in Range(canon.cols) \ {"date", "value"} : c \in Range(AllowList(profile))
        /\ \A c \in Range(AllowList(profile)) :
              /\ c \in Range(canon.cols) <=> c \in Range(raw.cols)
              /\ c \in Range(canon.cols) => Column(canon, c) = Column(raw, c)
        /\ \A c \in Range(raw.cols) \ ({"date", "value"} \cup Range(AllowList(profile))) :
              c \notin Range(canon.cols)

\* C10: an empty (header-only) input does not make the pipeline fail: load_raw
\* followed by the aggregate function returns a table with zero rows and the
\* column headers of a non-empty run of the profile over the same file header.
C10_EmptyInput ==
    (raw.rows = <<>> /\ pc \in {"built", "failed"}) =>
        \A rs \in SchemaRows(raw.cols) \ {<<>>} :
            LET full == Pipeline(profile, Table(raw.cols, rs))
            IN full.ok =>
                /\ pc = "built"
                /\ monthly.rows = <<>>
                /\ monthly.cols = full.table.cols

(* ------------------------ claims: monthly aggregator -------------------- *)
SumCol(p) ==
    IF p \in {"multi_ev", "four_ev"} THEN "ev_registrations_total" ELSE "traffic_sum"
MeanCol(p) ==
    IF p \in {"multi_ev", "four_ev"} THEN "ev_registrations_mean" ELSE "traffic_mean"
CountCol(p) ==
    CASE p = "multi_ev" -> "data_points"
      [] p = "four_ev" -> "ev_registrations_count"
      [] OTHER -> "traffic_count"
GrowthCol(p) == IF p = "multi_ev" THEN "monthly_growth_rate" ELSE "monthly_change_mean"

\* the context columns a profile groups by, next to year and month
ContextCols(p, t) ==
    IF p \in {"multi_ev", "four_ev"} THEN <<>>
    ELSE SelectSeq(<<"region", "road_category">>, LAMBDA c : Has(t, c))

\* (year, month, context) of an input row and of an aggregate row
PeriodOfInput(row) == <<YearOf(row["date"].n), MonthOf(row["date"].n)>>
PeriodOfOutput(row) == <<row["year"].n, row["month"].n>>
ContextOf(row, cs) == [j \in 1..Len(cs) |-> row[cs[j]].n]

RECURSIVE SumOver(_, _)
SumOver(S, f) ==
    IF S = {} THEN 0
    ELSE LET x == CHOOSE x \in S : TRUE IN f[x] + SumOver(S \ {x}, f)

Aggregate == pc = "built"
AggregateTried == pc \in {"built", "failed"} /\ canon # NoTable

\* C1: for a table with only a date and a value column, prepare.build_metrics
\* returns a table whose columns include year, month, value_sum, value_mean,
\* value_median and value_count, and the row of every month of the input has
\* value_sum equal to the sum of value over the input rows of that month.
C1_BuildMetricsDateValue ==
    (profile = "prepare" /\ AggregateTried /\ canon.cols = <<"date", "value">>) =>
        /\ pc = "built"
        /\ {"year", "month", "value_sum", "value_mean", "value_median", "value_count"}
              \subseteq Range(monthly.cols)
        /\ \A i \in 1..Len(canon.rows) :
              \E o \in 1..Len(monthly.rows) :
                  /\ PeriodOfOutput(monthly.rows[o]) = PeriodOfInput(canon.rows[i])
                  /\ monthly.rows[o]["value_sum"] =
                        Num(SumOver({j \in 1..Len(canon.rows) :
                                        PeriodOfInput(canon.rows[j]) = PeriodOfInput(canon.rows[i])},
                                    [j \in 1..Len(canon.rows) |-> canon.rows[j]["value"].n]))

\* C2: in every build function, for each group of input rows sharing the same
\* (year, month, grouping context) the corresponding output row's sum equals
\* the arithmetic sum of the group's values, its count the number of rows of
\* the group, and its mean sum/count.
C2_GroupStatistics ==
    Aggregate =>
        LET cs == ContextCols(profile, canon)
            n == Len(canon.rows)
            same(i) == {j \in 1..n :
                          /\ PeriodOfInput(canon.rows[j]) = PeriodOfInput(canon.rows[i])
                          /\ ContextOf(canon.rows[j], cs) = ContextOf(canon.rows[i], cs)}
            total(i) == SumOver(same(i), [j \in 1..n |-> canon.rows[j]["value"].n])
            rowsOf(i) == {o \in 1..Len(monthly.rows) :
                            /\ PeriodOfOutput(monthly.rows[o]) = PeriodOfInput(canon.rows[i])
                            /\ ContextOf(monthly.rows[o], cs) = ContextOf(canon.rows[i], cs)}
        IN \A i \in 1..n :
              /\ rowsOf(i) # {}
              /\ \A o \in rowsOf(i) :
                    /\ monthly.rows[o][SumCol(profile)] = Num(total(i))
                    /\ monthly.rows[o][CountCol(profile)] = Num(Cardinality(same(i)))
                    /\ monthly.rows[o][MeanCol(profile)] = Rat(total(i), Cardinality(same(i)))

\* C7: in the table returned by every build function no two rows share the
\* same (year, month, context combination), also when the input has several
\* rows with different days of the same month.
C7_UniqueGroupKeys ==
    Aggregate =>
        LET cs == ContextCols(profile, canon) IN
        \A a, b \in 1..Len(monthly.rows) :
            ( /\ PeriodOfOutput(monthly.rows[a]) = PeriodOfOutput(monthly.rows[b])
              /\ ContextOf(monthly.rows[a], cs) = ContextOf(monthly.rows[b], cs) ) => a = b

\* C8: in the output of prepare.build_metrics, prepare_multi.build_ev_metrics
\* and prepare_multi.build_traffic_metrics the first period of any context
\* group has a null month-over-month growth field, whatever the number of raw
\* rows that fall in that first period.
C8_FirstPeriodGrowthNull ==
    (Aggregate /\ profile \in NormProfiles) =>
        LET cs == ContextCols(profile, canon) IN
        \A o \in 1..Len(monthly.rows) :
            (\A e \in 1..Len(monthly.rows) :
                ContextOf(monthly.rows[e], cs) = ContextOf(monthly.rows[o], cs)
                    => ~LexLess(PeriodOfOutput(monthly.rows[e]), PeriodOfOutput(monthly.rows[o])))
            => monthly.rows[o][GrowthCol(profile)].k = "nan"

\* C9: the rows returned by every build function are sorted ascending by
\* (year, month) and, when grouped further, by context key within each
\* period, for every order of the input rows.
C9_ChronologicalOrder ==
    Aggregate =>
        LET cs == ContextCols(profile, canon)
            key(o) == PeriodOfOutput(monthly.rows[o]) \o ContextOf(monthly.rows[o], cs)
        IN \A a, b \in 1..Len(monthly.rows) : a < b => ~LexLess(key(b), key(a))

(* ------------------------ claims: ordering and growth ------------------- *)
DateOf(row) == row["date"].n

\* C17 (as stated): the table returned by load_raw is sorted ascending by
\* date, and, where a region column exists, by region and then by date within
\* each region.
C17_SortedByRegionDate ==
    LoadOk =>
       \A i, j \in 1..Len(canon.rows) :
          i < j =>
             IF Has(canon, "region")
             THEN ~LexLess(<<canon.rows[j]["region"].n, DateOf(canon.rows[j])>>,
                           <<canon.rows[i]["region"].n, DateOf(canon.rows[i])>>)
             ELSE DateOf(canon.rows[i]) <= DateOf(canon.rows[j])

\* what load_raw does give: a table sorted ascending by date, with or without
\* a region column, so that the rows of each region are in date order
LoadSortedByDate ==
    LoadOk =>
       \A i, j \in 1..Len(canon.rows) :
          i < j => DateOf(canon.rows[i]) <= DateOf(canon.rows[j])

\* the growth field of each profile and the aggregate row before row o in
\* the same context (0 when there is none)
MonthlyGrowthCol(p) ==
    IF p \in {"multi_ev", "four_ev"} THEN "monthly_growth_rate" ELSE "monthly_change_mean"
YearlyGrowthCol(p) == IF p = "multi_ev" THEN "yearly_growth_rate" ELSE "yearly_change_mean"
EarlierInContext(o) ==
    LET cs == ContextCols(profile, canon) IN
    {e \in 1..(o - 1) : ContextOf(monthly.rows[e], cs) = ContextOf(monthly.rows[o], cs)}
Max(S) == CHOOSE x \in S : \A y \in S : y <= x
\* the percentage change of statistic c from aggregate row e to aggregate row o
PeriodChange(c, o, e) == PctCell(monthly.rows[o][c], monthly.rows[e][c])
FilledIfFour(x) == IF EntryOf(profile) = "four" THEN Round1(Fillna0(x)) ELSE x

\* C18: the month-over-month growth of an aggregate row is the percentage
\* change of the period's mean or sum from the preceding period of the same
\* context (null, or the profile's fill value, when there is none), whatever
\* the number of raw rows in each period.
C18_GrowthBetweenPeriods ==
    Aggregate =>
       \A o \in 1..Len(monthly.rows) :
          LET prev == EarlierInContext(o)
              g == monthly.rows[o][MonthlyGrowthCol(profile)]
          IN IF prev = {} THEN g = FilledIfFour(NaN)
             ELSE \/ g = FilledIfFour(PeriodChange(MeanCol(profile), o, Max(prev)))
                  \/ g = FilledIfFour(PeriodChange(SumCol(profile), o, Max(prev)))

\* the e-th earlier aggregate row of the context of row o, counted backwards
NthEarlier(o, n) ==
    CHOOSE e \in EarlierInContext(o) :
       Cardinality({x \in EarlierInContext(o) : x >= e}) = n

\* C19: the year-over-year growth of an aggregate row compares the period
\* with the period 12 periods earlier in the same context, and is null for
\* every period with fewer than 12 earlier periods in its context.
C19_YearOverYear ==
    (Aggregate /\ profile \in NormProfiles) =>
       \A o \in 1..Len(monthly.rows) :
          LET g == monthly.rows[o][YearlyGrowthCol(profile)] IN
          IF Cardinality(EarlierInContext(o)) < YearPeriods THEN g.k = "nan"
          ELSE \/ g = PeriodChange(MeanCol(profile), o, NthEarlier(o, YearPeriods))
               \/ g = PeriodChange(SumCol(profile), o, NthEarlier(o, YearPeriods))

\* row a is at or before row b in date order, rows of one day in table order
Before(a, b) ==
    \/ DateOf(canon.rows[a]) < DateOf(canon.rows[b])
    \/ DateOf(canon.rows[a]) = DateOf(canon.rows[b]) /\ a <= b
\* the raw rows of aggregate row o, and the mean of the last w values of
\* their region up to the last of them
GroupRows(o) ==
    LET cs == ContextCols(profile, canon) IN
    {i \in 1..Len(canon.rows) :
        /\ PeriodOfInput(canon.rows[i]) = PeriodOfOutput(monthly.rows[o])
        /\ ContextOf(canon.rows[i], cs) = ContextOf(monthly.rows[o], cs)}
TrailingMean(o, w) ==
    LET last == CHOOSE l \in GroupRows(o) : \A g \in GroupRows(o) : Before(g, l)
        reg == {i \in 1..Len(canon.rows) :
                   /\ canon.rows[i]["region"] = canon.rows[last]["region"]
                   /\ Before(i, last)}
        win == {i \in reg : Cardinality({j \in reg : Before(i, j)}) <= w}
    IN Rat(SumOver(win, [i \in 1..Len(canon.rows) |-> canon.rows[i]["value"].n]),
           Cardinality(win))

\* C20: in prepare.build_metrics, rolling_3_month (rolling_12_month) of an
\* aggregate row is the mean of the last min(k, 3) (min(k, 12)) raw values of
\* the row's region in date order up to the last raw row of the aggregate
\* group, k being the number of raw rows of the region up to that row.
C20_RollingLast ==
    (Aggregate /\ profile = "prepare") =>
       \A o \in 1..Len(monthly.rows) :
          /\ monthly.rows[o]["rolling_3_month_last"] = TrailingMean(o, Window3)
          /\ monthly.rows[o]["rolling_12_month_last"] = TrailingMean(o, Window12)
C20_Witness ==
    /\ Aggregate
    /\ profile = "prepare"
    /\ Len(canon.rows) = YearPeriods + 1
    /\ Len(monthly.rows) = 2
    /\ monthly.rows[2]["rolling_3_month_last"] = Num(12)
    /\ monthly.rows[2]["rolling_12_month_last"] = Rat(15, 2)
    /\ monthly.rows[2]["traffic_mean"] # Rat(15, 2)

(* ------------------------ claims: command line -------------------------- *)
HasMsg(kind, d) == \E i \in 1..Len(stdout) : stdout[i].kind = kind /\ stdout[i].ds = d

\* C11: running the pipeline twice on unchanged input files gives identical
\* output files: when the second run has ended, data/processed/ holds what
\* the first run left, and every file a run wrote is the table that load_raw
\* and the build function give for the raw file, whatever the file held before.
C11_Idempotent ==
    /\ (runs >= 2 /\ Ended) => outFiles = outBefore
    /\ \A d \in Datasets :
          HasMsg("wrote", d) =>
             outFiles[d] = File(ToCsv(Pipeline(ProfileFor(entry, d), rawFiles[d].table).table))
C11_Witness ==
    /\ runs = 2
    /\ pc = "done"
    /\ entry = "multi"
    /\ HasMsg("wrote", "ev")
    /\ Len(outFiles["ev"].table.rows) = 2
    /\ outFiles["traffic"] = OldFile

\* C12: in every entry point, a selected dataset whose raw file is absent
\* gets a guidance message and no uncaught exception: no load_raw ends the
\* run in FileNotFoundError, and a run that returns or exits has printed a message
\* for every selected dataset whose raw file is absent.
C12_MissingRawGuidance ==
    Ended =>
       /\ ~(pc = "failed" /\ err = "FileNotFoundError" /\ step > 0)
       /\ pc \in {"done", "exit"} =>
             \A d \in Datasets :
                (Selects(entry, dataset, d) /\ ~rawFiles[d].exists) =>
                   (HasMsg("missing", d) \/ HasMsg("warning", d))

\* the dataset whose pipeline failed
FailedDatasets ==
    IF step = 0 /\ entry # "prepare"
    THEN {d \in Datasets : Selects(entry, dataset, d)}
    ELSE {DatasetOf(profile)}

\* C13: when load_raw or the build function fails for a dataset, the output
\* file of that dataset is as it was before the run (absent stays absent, an
\* older file keeps its content).
C13_NoOutputOnFailure ==
    pc = "failed" => \A d \in FailedDatasets : outFiles[d] = outBefore[d]
C13_Witness ==
    /\ pc = "failed"
    /\ entry = "multi"
    /\ dataset = "both"
    /\ profile = "multi_traffic"
    /\ err = "no date column"
    /\ outFiles["traffic"] = OldFile
    /\ HasMsg("wrote", "ev")

\* C14: in every entry point the write creates the parent directories as
\* needed and replaces any prior file: no run fails creating data/processed/
\* or writing into it, and once a dataset's success message is printed both
\* directories exist and the file is the table just written.
C14_WriteCreatesParents ==
    /\ ~(pc = "failed" /\ step = 0 /\ entry # "prepare")
    /\ err # "OSError"
    /\ \A d \in Datasets :
          HasMsg("wrote", d) =>
             /\ dirs.data /\ dirs.processed
             /\ outFiles[d].exists /\ outFiles[d] # OldFile

\* the profiles each value of --dataset runs
Expected(e, a) ==
    CASE e = "four" /\ a = "both" -> {"ev", "traffic"}
      [] e = "four" /\ a = "all" -> {"ev", "traffic", "entur", "geonorge"}
      [] e = "multi" /\ a = "both" -> {"ev", "traffic"}
      [] e = "prepare" -> {"traffic"}
      [] OTHER -> {a}

\* C15: the --dataset argument decides exactly which profiles run: a message
\* or a pipeline is only ever about a selected dataset, a run that returns has
\* handled every selected dataset, and a success message comes with the file
\* written and reports the row count of that file.
C15_SelectorAndMessages ==
    /\ \A i \in 1..Len(stdout) : stdout[i].ds \in Expected(entry, dataset)
    /\ pc \in {"read", "loaded", "built"} => DatasetOf(profile) \in Expected(entry, dataset)
    /\ pc = "done" =>
          \A d \in Expected(entry, dataset) : HasMsg("wrote", d) \/ HasMsg("warning", d)
    /\ \A i \in 1..Len(stdout) :
          stdout[i].kind = "wrote" =>
             /\ outFiles[stdout[i].ds].exists
             /\ Len(outFiles[stdout[i].ds].table.rows) = stdout[i].rows
C15_Witness ==
    /\ entry = "four"
    /\ dataset = "both"
    /\ pc = "done"
    /\ rawFiles["entur"].exists
    /\ \E i \in 1..Len(stdout) : stdout[i] = Msg("wrote", "ev", 2)
    /\ HasMsg("wrote", "traffic")
    /\ ~HasMsg("processing", "entur")

(* ------------------------ claims: dashboards ---------------------------- *)
\* the command regenerates dataset d: it names a pipeline module and a
\* --dataset argument of that module which selects d
Regenerates(cmd, d) ==
    \/ cmd.module = "prepare" /\ d = "traffic"
    \/ cmd.module = "prepare_multi" /\ cmd.arg \in Choices("multi")
                                    /\ Selects("multi", cmd.arg, d)
    \/ cmd.module = "prepare_4datasets" /\ cmd.arg \in Choices("four")
                                        /\ Selects("four", cmd.arg, d)

\* C16: in every dashboard, when a processed file of the selected section is
\* missing, the script does not crash, the page shows guidance naming a
\* command that regenerates the file, and no chart or metric of the section
\* is rendered.
C16_DashboardGuidance ==
    pc # "script" =>
       \A d \in SectionFiles(app, section) :
          ~outFiles[d].exists =>
             /\ pc # "failed"
             /\ \E i \in 1..Len(page) :
                   /\ page[i].kind \in {"warning", "error"}
                   /\ Regenerates(page[i].cmd, d)
             /\ \A i \in 1..Len(page) :
                   ~(page[i].kind = "charts" /\ page[i].sec = section)

(* --------------------------- the calendar year --------------------------- *)
\* raw files of every profile with rows in any of the twelve months, on
\* days other than the first of the month
MaxCalendarRows == 2
AllProfiles == Profiles \cup {"four_entur", "four_geonorge"}
CalendarDate(m) ==
    (IF m % 2 = 0 THEN 2024 ELSE 2023) * 10000 + m * 100 + (IF m % 3 = 0 THEN 1 ELSE 15 + m)

\* a pipeline of any of the seven profiles called directly on the file `raw`
StartAny ==
    /\ profile \in AllProfiles
    /\ canon = NoTable
    /\ monthly = NoTable
    /\ pc = "read"
    /\ err = ""
    /\ entry = EntryOf(profile)
    /\ dataset = ""
    /\ step = 0
    /\ outFiles = [d \in Datasets |-> NoFile]
    /\ dirs = [data |-> TRUE, processed |-> FALSE]
    /\ stdout = <<>>
    /\ runs = 1
    /\ outBefore = [d \in Datasets |-> NoFile]
    /\ NoDashboard

InitCalendar ==
    /\ StartAny
    /\ \E n \in 1..MaxCalendarRows : \E ms \in [1..n -> 1..12] :
          raw = Table(RawCols(DatasetOf(profile)),
                      [i \in 1..n |->
                          SampleRow(RawCols(DatasetOf(profile)), CalendarDate(ms[i]), i)])
    /\ RawOnDisk

NextAny ==
    \/ PrepareLoadRaw
    \/ MultiLoadRaw
    \/ FourLoadRaw
    \/ BuildMetrics
    \/ BuildEvMetrics
    \/ BuildTrafficMetrics
    \/ BuildEvMetrics4
    \/ BuildTrafficMetrics4
    \/ BuildEnturMetrics4
    \/ BuildGeonorgeMetrics4

SpecCalendar == InitCalendar /\ [][NextAny]_vars

(* --------------------------- traffic volumes ----------------------------- *)
\* traffic files of one day whose values lie on and next to the breakpoints
\* of the intensity bins, zero, a negative count and an empty field included;
\* at most two rows per region, which keeps the exact arithmetic on the
\* row-to-row changes within the integers of the model checker
MaxVolumeRows == 2
SampleVolumes ==
    {NaN, Num(-1), Num(0), Num(1), Num(30000), Num(30001), Num(45000), Num(45001),
     Num(60000), Num(60001)}

InitVolumes ==
    /\ Start
    /\ profile \in {"prepare", "multi_traffic"}
    /\ \E n \in 1..MaxVolumeRows :
          \E vs \in [1..n -> SampleVolumes] : \E rs \in [1..n -> SampleRegions] :
             /\ \A r \in SampleRegions : Cardinality({i \in 1..n : rs[i] = r}) <= 2
             /\ raw = Table(<<"date", "value", "region">>,
                            [i \in 1..n |->
                                [date |-> Txt(20240101), value |-> vs[i], region |-> rs[i]]])
    /\ RawOnDisk

NextVolumes ==
    \/ PrepareLoadRaw
    \/ MultiLoadRaw
    \/ BuildMetrics
    \/ BuildTrafficMetrics

SpecVolumes == InitVolumes /\ [][NextVolumes]_vars

(* ------------------------- indicators per place -------------------------- *)
\* raw files of the build functions that name their statistic columns by
\* position: rows of two days and two places, the value in the j-th column
\* being j times the row's level, so that columns and statistics differ
MaxPlaceRows == 2
PlaceDates == {20240115, 20240201}
PlaceLevels == {0, 1, 3}
PlaceProfiles == {"multi_ev", "four_ev", "four_traffic", "four_entur", "four_geonorge"}
ColPos(cs, c) == CHOOSE j \in 1..Len(cs) : cs[j] = c
PlaceRow(cs, d, place, level) ==
    [c \in Range(cs) |->
        IF c = "date" THEN Txt(d)
        ELSE IF c \in {"region", "county_name"} THEN Str(1, "A")
        ELSE IF c \in {"road_category", "operator", "kommune_name"}
             THEN Str(place, IF place = 1 THEN "E" ELSE "F")
        ELSE Num(level * ColPos(cs, c))]

InitPlaces ==
    /\ StartAny
    /\ profile \in PlaceProfiles
    /\ \E n \in 1..MaxPlaceRows :
          \E ds \in [1..n -> PlaceDates] : \E ps \in [1..n -> 1..2] :
             \E ls \in [1..n -> PlaceLevels] :
                raw = Table(RawCols(DatasetOf(profile)),
                            [i \in 1..n |->
                                PlaceRow(RawCols(DatasetOf(profile)), ds[i], ps[i], ls[i])])
    /\ RawOnDisk

NextPlaces ==
    \/ MultiLoadRaw
    \/ FourLoadRaw
    \/ BuildEvMetrics
    \/ BuildEvMetrics4
    \/ BuildTrafficMetrics4
    \/ BuildEnturMetrics4
    \/ BuildGeonorgeMetrics4

SpecPlaces == InitPlaces /\ [][NextPlaces]_vars

(* ------------------------ claims: aggregate fields ---------------------- *)
RegionProfiles == {"prepare", "multi_traffic"}

SeasonName(m) ==
    CASE m \in {12, 1, 2} -> "Winter"
      [] m \in {3, 4, 5} -> "Spring"
      [] m \in {6, 7, 8} -> "Summer"
      [] m \in {9, 10, 11} -> "Autumn"
      [] OTHER -> ""
SeasonProfiles == {"prepare", "multi_ev", "multi_traffic", "four_ev", "four_entur"}

\* C22: every aggregate row that carries a season has Winter for months 12,
\* 1, 2, Spring for 3, 4, 5, Summer for 6, 7, 8 and Autumn for 9, 10, 11; the
\* season is never null, and the mapping is the same in every build function
\* that attaches one.
C22_SeasonMapping ==
    Aggregate =>
       /\ profile \in SeasonProfiles => Has(monthly, "season")
       /\ Has(monthly, "season") =>
             \A o \in 1..Len(monthly.rows) :
                /\ monthly.rows[o]["season"].k = "str"
                /\ monthly.rows[o]["month"].n \in 1..12
                /\ monthly.rows[o]["season"].s = SeasonName(monthly.rows[o]["month"].n)
C22_Witness ==
    /\ Aggregate
    /\ profile = "four_entur"
    /\ Len(monthly.rows) = 2
    /\ monthly.rows[1]["month"].n = 11
    /\ monthly.rows[1]["season"].s = "Autumn"
    /\ monthly.rows[2]["month"].n = 12
    /\ monthly.rows[2]["season"].s = "Winter"

\* C24: in every aggregate row of prepare.build_metrics and of the two build
\* functions of prepare_multi, date is the first day of the row's (year,
\* month), a month in which the input has a row.
C24_FirstOfMonth ==
    (Aggregate /\ profile \in NormProfiles) =>
       \A o \in 1..Len(monthly.rows) :
          LET d == monthly.rows[o]["date"] IN
          /\ d.k = "dt"
          /\ YearOf(d.n) = monthly.rows[o]["year"].n
          /\ MonthOf(d.n) = monthly.rows[o]["month"].n
          /\ DayOf(d.n) = 1
          /\ \E i \in 1..Len(canon.rows) :
                PeriodOfInput(canon.rows[i]) = <<YearOf(d.n), MonthOf(d.n)>>
C24_Witness ==
    /\ Aggregate
    /\ profile = "multi_ev"
    /\ Len(monthly.rows) = 2
    /\ \A i \in 1..Len(canon.rows) : DayOf(canon.rows[i]["date"].n) # 1
    /\ monthly.rows[1]["date"] = Dt(20230101)
    /\ monthly.rows[2]["date"] = Dt(20240201)

IntensityLabels == <<"Low", "Medium", "High", "Very High">>
IntensityRank(l) == CHOOSE r \in 1..Len(IntensityLabels) : IntensityLabels[r] = l
Labelled(o) == monthly.rows[o]["traffic_intensity"].k = "str"

\* C23: traffic_intensity is Low for 0 < traffic_mean <= 30000, Medium for
\* 30000 < mean <= 45000, High for 45000 < mean <= 60000 and Very High for
\* mean > 60000, and a larger traffic_mean never has a lower-ranked label.
C23_IntensityBins ==
    (Aggregate /\ profile \in RegionProfiles) =>
       /\ \A o \in 1..Len(monthly.rows) :
             LET m == monthly.rows[o]["traffic_mean"]
                 l == monthly.rows[o]["traffic_intensity"].s
             IN IsNum(m) =>
                  /\ (RatLess(Num(0), m) /\ RatLeq(m, Num(30000))) => l = "Low"
                  /\ (RatLess(Num(30000), m) /\ RatLeq(m, Num(45000))) => l = "Medium"
                  /\ (RatLess(Num(45000), m) /\ RatLeq(m, Num(60000))) => l = "High"
                  /\ RatLess(Num(60000), m) => l = "Very High"
       /\ \A o1, o2 \in 1..Len(monthly.rows) :
             (/\ Labelled(o1) /\ Labelled(o2)
              /\ RatLess(monthly.rows[o1]["traffic_mean"], monthly.rows[o2]["traffic_mean"]))
             => IntensityRank(monthly.rows[o1]["traffic_intensity"].s)
                   <= IntensityRank(monthly.rows[o2]["traffic_intensity"].s)
C23_Witness ==
    /\ Aggregate
    /\ profile = "prepare"
    /\ Len(monthly.rows) = 2
    /\ monthly.rows[1]["traffic_mean"] = Num(30000)
    /\ monthly.rows[1]["traffic_intensity"].s = "Low"
    /\ monthly.rows[2]["traffic_mean"] = Num(30001)
    /\ monthly.rows[2]["traffic_intensity"].s = "Medium"

\* C26: every traffic aggregate row has a traffic_intensity that is one of
\* Low, Medium, High, Very High, never null, also when traffic_mean is 0 or
\* negative.
C26_IntensityNeverNull ==
    (Aggregate /\ profile \in RegionProfiles) =>
       \A o \in 1..Len(monthly.rows) :
          /\ Labelled(o)
          /\ monthly.rows[o]["traffic_intensity"].s \in Range(IntensityLabels)

\* the aggregate rows an input row belongs to
OutputRowsOf(i) ==
    LET cs == ContextCols(profile, canon) IN
    {o \in 1..Len(monthly.rows) :
        /\ PeriodOfOutput(monthly.rows[o]) = PeriodOfInput(canon.rows[i])
        /\ ContextOf(monthly.rows[o], cs) = ContextOf(canon.rows[i], cs)}

\* C27: the count field summed over all aggregate rows is the number of rows
\* of the input table, and every input row belongs to exactly one aggregate
\* row.
C27_CountsSumToRows ==
    (Aggregate /\ profile \in NormProfiles) =>
       /\ SumOver(1..Len(monthly.rows),
                  [o \in 1..Len(monthly.rows) |-> monthly.rows[o][CountCol(profile)].n])
             = Len(canon.rows)
       /\ \A i \in 1..Len(canon.rows) : Cardinality(OutputRowsOf(i)) = 1

(* ------------------------ claims: order of a run ------------------------ *)
ClaimedOrder == <<"ev", "traffic", "entur", "geonorge">>
OrderRank(d) == CHOOSE r \in 1..Len(ClaimedOrder) : ClaimedOrder[r] = d
\* the file that the pipeline of dataset d gives for its raw file alone
OwnOutput(d) == File(ToCsv(Pipeline(ProfileFor(entry, d), rawFiles[d].table).table))
Handled(d) ==
    \/ HasMsg("wrote", d) /\ outFiles[d] = OwnOutput(d)
    \/ entry = "multi" /\ HasMsg("warning", d) /\ outFiles[d] = outBefore[d]
Untouched(d) ==
    /\ outFiles[d] = outBefore[d]
    /\ \A i \in 1..Len(stdout) : stdout[i].ds # d
InPipeline == pc \in {"read", "loaded", "built"} \/ (pc = "failed" /\ step >= 1)

\* C29: prepare_multi and prepare_4datasets handle the selected datasets in
\* the order ev, traffic, entur, geonorge; while a dataset is loaded, built or
\* has failed, every selected dataset before it has its output file written
\* (or, in prepare_multi, its warning printed) and every selected dataset
\* after it is untouched; a written file is the result for that dataset's raw
\* file alone, whatever else was selected.
C29_OrderAndIndependence ==
    entry \in {"multi", "four"} =>
       /\ \A i, j \in 1..Len(stdout) :
             i < j => OrderRank(stdout[i].ds) <= OrderRank(stdout[j].ds)
       /\ InPipeline =>
             \A d \in Datasets :
                Selects(entry, dataset, d) =>
                   /\ OrderRank(d) < OrderRank(DatasetOf(profile)) => Handled(d)
                   /\ OrderRank(d) > OrderRank(DatasetOf(profile)) => Untouched(d)
       /\ \A d \in Datasets : HasMsg("wrote", d) => outFiles[d] = OwnOutput(d)
C29_Witness ==
    /\ entry = "four"
    /\ dataset = "all"
    /\ pc = "failed"
    /\ profile = "four_entur"
    /\ HasMsg("wrote", "ev")
    /\ HasMsg("wrote", "traffic")
    /\ outBefore["ev"] = OldFile
    /\ Len(outFiles["ev"].table.rows) = 2
    /\ outFiles["geonorge"] = OldFile

(* ------------------------ claims: prepare_4datasets --------------------- *)
FourProfiles == {"four_ev", "four_traffic", "four_entur", "four_geonorge"}
\* the change field of a profile, the statistic it is taken from and the
\* columns of its context group
ChangeField(p) ==
    CASE p = "four_ev" -> "monthly_growth_rate"
      [] p = "four_traffic" -> "monthly_change_mean"
      [] p = "four_entur" -> "punctuality_improvement"
      [] p = "four_geonorge" -> "urban_development_rate"
ChangeStat(p) ==
    CASE p = "four_ev" -> "ev_registrations_total"
      [] p = "four_traffic" -> "traffic_mean"
      [] p = "four_entur" -> "punctuality_rate_mean"
      [] p = "four_geonorge" -> "urban_development_mean"
ChangeContext(p) ==
    CASE p = "four_ev" -> <<>>
      [] p = "four_traffic" -> <<"region", "road_category">>
      [] p = "four_entur" -> <<"region", "operator">>
      [] p = "four_geonorge" -> <<"county_name", "kommune_name">>
\* the change from statistic `prev` to statistic `cur`: a difference for the
\* punctuality rate, a percentage for the others
ChangeOf(p, cur, prev) ==
    IF p = "four_entur"
    THEN (IF IsNum(cur) /\ IsNum(prev) THEN RatSub(cur, prev) ELSE NaN)
    ELSE PctCell(cur, prev)
EarlierInGroup(o) ==
    {e \in 1..(o - 1) :
        ContextOf(monthly.rows[e], ChangeContext(profile))
           = ContextOf(monthly.rows[o], ChangeContext(profile))}

\* C28: in prepare_4datasets the change field of an aggregate row is never
\* null: it is 0 in the first row of each context group, and in a later row it
\* is the change of the statistic from the previous row of the same context
\* group, which has an earlier date.
C28_ChangeNeverNull ==
    (Aggregate /\ profile \in FourProfiles) =>
       \A o \in 1..Len(monthly.rows) :
          LET g == monthly.rows[o][ChangeField(profile)]
              prev == EarlierInGroup(o)
          IN /\ g.k # "nan"
             /\ IF prev = {} THEN g = Num(0)
                ELSE /\ DateOf(monthly.rows[Max(prev)]) < DateOf(monthly.rows[o])
                     /\ g = Round1(Fillna0(ChangeOf(profile,
                                                    monthly.rows[o][ChangeStat(profile)],
                                                    monthly.rows[Max(prev)][ChangeStat(profile)])))
C28_Witness ==
    /\ Aggregate
    /\ profile = "four_geonorge"
    /\ Len(monthly.rows) = 2
    /\ DateOf(monthly.rows[1]) < DateOf(monthly.rows[2])
    /\ monthly.rows[1]["kommune_name"] # monthly.rows[2]["kommune_name"]
    /\ monthly.rows[1]["urban_development_mean"] # monthly.rows[2]["urban_development_mean"]
    /\ monthly.rows[2]["urban_development_rate"] = Num(0)

\* the statistic and the source column that a flat name states
StatedStatistic(name) ==
    CASE name \in {"ev_registrations_total", "traffic_sum", "scheduled_trips_total",
                   "on_time_trips_total", "delayed_trips_total", "passenger_impact_total",
                   "road_network_total"} -> "sum"
      [] name = "ev_registrations_median" -> "median"
      [] name \in {"ev_registrations_max", "traffic_max", "avg_delay_max",
                   "punctuality_rate_max", "population_density_max",
                   "urban_development_max"} -> "max"
      [] name = "punctuality_rate_min" -> "min"
      [] name \in {"data_points", "ev_registrations_count", "traffic_count"} -> "count"
      [] OTHER -> "mean"
StatedColumn(name) ==
    CASE name \in {"ev_registrations_total", "ev_registrations_mean",
                   "ev_registrations_median", "ev_registrations_max",
                   "ev_registrations_count", "data_points", "traffic_sum",
                   "traffic_mean", "traffic_max", "traffic_count"} -> "value"
      [] name = "monthly_growth_rate" -> "monthly_growth"
      [] name = "yearly_growth_rate" -> "yearly_growth"
      [] name \in {"scheduled_trips_total", "scheduled_trips_mean"} -> "scheduled_trips"
      [] name \in {"on_time_trips_total", "on_time_trips_mean"} -> "on_time_trips"
      [] name \in {"delayed_trips_total", "delayed_trips_mean"} -> "delayed_trips"
      [] name \in {"avg_delay_mean", "avg_delay_max"} -> "avg_delay_minutes"
      [] name \in {"punctuality_rate_mean", "punctuality_rate_min",
                   "punctuality_rate_max"} -> "punctuality_rate"
      [] name \in {"passenger_impact_mean", "passenger_impact_total"}
            -> "passenger_impact_score"
      [] name \in {"population_density_mean", "population_density_max"}
            -> "population_density"
      [] name \in {"road_network_total", "road_network_mean"} -> "road_network_km"
      [] name = "green_area_pct_mean" -> "green_area_pct"
      [] name \in {"urban_development_mean", "urban_development_max"}
            -> "urban_development_index"
      [] name = "transport_accessibility_mean" -> "transport_accessibility_score"
      [] name = "economic_activity_mean" -> "economic_activity_index"
      [] name = "infrastructure_quality_mean" -> "infrastructure_quality_score"
      [] name = "environmental_quality_mean" -> "environmental_quality_index"
      [] name = "regional_connectivity_mean" -> "regional_connectivity_score"
      [] OTHER -> ""
\* the names a profile assigns by position and the (column, statistic) pairs
\* of its aggregation
AggNames(p) ==
    CASE p = "multi_ev" -> EvNames
      [] p = "four_ev" -> Ev4Names
      [] p = "four_traffic" -> Traffic4Names
      [] p = "four_entur" -> EnturNames
      [] p = "four_geonorge" -> GeonorgeNames
AggStats(p) ==
    CASE p = "multi_ev" ->
            ValueStats5 \o << <<"monthly_growth", "mean">>, <<"yearly_growth", "mean">> >>
      [] p \in {"four_ev", "four_traffic"} -> ValueStats4
      [] p = "four_entur" -> EnturStats
      [] p = "four_geonorge" -> GeonorgeStats
\* the cells of column c in the input rows of aggregate row o
GroupCells(o, c) ==
    LET ix == SelectSeq(Idx(Len(canon.rows)), LAMBDA i :
                 IF profile = "multi_ev"
                 THEN PeriodOfInput(canon.rows[i]) = PeriodOfOutput(monthly.rows[o])
                 ELSE /\ DateOf(canon.rows[i]) = DateOf(monthly.rows[o])
                      /\ ContextOf(canon.rows[i], ChangeContext(profile))
                            = ContextOf(monthly.rows[o], ChangeContext(profile)))
    IN [r \in 1..Len(ix) |-> canon.rows[ix[r]][c]]
AsWritten(p, x) == IF p = "multi_ev" THEN x ELSE Round1(x)

\* C30: where the statistic columns are renamed by position, there are as
\* many names as aggregated statistics, the i-th name states the column and
\* the statistic of the i-th pair, and in every aggregate row the named field
\* holds that statistic of that column over the row's group.
C30_PositionalNames ==
    (Aggregate /\ profile \in PlaceProfiles) =>
       /\ Len(AggNames(profile)) = Len(AggStats(profile))
       /\ \A j \in 1..Len(AggNames(profile)) :
             LET name == AggNames(profile)[j] IN
             /\ AggStats(profile)[j] = <<StatedColumn(name), StatedStatistic(name)>>
             /\ Has(canon, StatedColumn(name)) =>
                   \A o \in 1..Len(monthly.rows) :
                      monthly.rows[o][name]
                         = AsWritten(profile, Agg(StatedStatistic(name),
                                                  GroupCells(o, StatedColumn(name))))
C30_Witness ==
    /\ Aggregate
    /\ profile = "four_entur"
    /\ Len(canon.rows) = 2
    /\ Len(monthly.rows) = 1
    /\ monthly.rows[1]["avg_delay_mean"] = Num(14)
    /\ monthly.rows[1]["avg_delay_max"] = Num(21)
    /\ monthly.rows[1]["punctuality_rate_min"] = Num(8)
    /\ monthly.rows[1]["passenger_impact_total"] = Num(36)

\* C25: a build function leaves the table it is given as it was: same
\* columns, same rows, same values after the call as before.
C25_InputUnchanged ==
    [][(pc = "loaded" /\ pc' \in {"built", "failed"}) => canon' = canon]_vars

====
